---------------------------- MODULE Spec2Model ----------------------------
(***************************************************************************)
(* Model of the roo blanket recommender (src/app.js) and its offline cache *)
(* worker (src/unnamed/part_000).                                          *)
(*                                                                         *)
(* JavaScript values are records [t, n, s]: t is the type tag, n the       *)
(* numeric payload, s the string payload (or, for a number, the name of    *)
(* the non-finite value it is).                                            *)
(***************************************************************************)
EXTENDS Integers, Sequences, FiniteSets, TLC

VARIABLES
  data,     \* state.data: the dataset
  stored,   \* localStorage[STORAGE_KEY]
  weather,  \* state.weather
  rec,      \* what the recommendation panel shows
  form,     \* the hidden id inputs of the three forms
  ui,       \* active tab, auto-refresh timer, page visibility, start-up position
  now,      \* Date.now()
  runs,     \* the refreshWeather calls awaiting a response
  status,   \* the weather status line
  out,      \* the result of the last function applied by SpecEngine
  lastOp,   \* the last handler that ran, with its inputs
  lastSuccessMs, \* when the last successful fetch completed, -1 if none is known
  sw        \* the service worker: its lifecycle state, the caches and its fetch events

vars == <<data, stored, weather, rec, form, ui, now, runs, status, out, lastOp,
          lastSuccessMs, sw>>

--------------------------------------------------------------------------
(* JavaScript values *)

Num(n) == [t |-> "number", n |-> n, s |-> ""]
NaNv == [t |-> "number", n |-> 0, s |-> "NaN"]
Infinity == [t |-> "number", n |-> 0, s |-> "Infinity"]
Str(s) == [t |-> "string", n |-> 0, s |-> s]
Bool(b) == [t |-> "boolean", n |-> IF b THEN 1 ELSE 0, s |-> ""]
Null == [t |-> "null", n |-> 0, s |-> ""]
Undefined == [t |-> "undefined", n |-> 0, s |-> ""]
Func == [t |-> "function", n |-> 0, s |-> ""]

\* app.js:72  typeof value === "number" && Number.isFinite(value)
isFiniteNumber(value) == value.t = "number" /\ value.s = ""

\* Number(s) of a string: the empty string is 0, a numeric literal its value,
\* anything else NaN
StringToNumber(s) ==
  CASE s = "" -> Num(0)
    [] s = "32" -> Num(32)
    [] s = "50" -> Num(50)
    [] OTHER -> NaNv

\* Number(value), app.js:237
ToNumber(value) ==
  CASE value.t = "number" -> value
    [] value.t = "null" -> Num(0)
    [] value.t = "undefined" -> NaNv
    [] value.t = "boolean" -> Num(value.n)
    [] value.t = "string" -> StringToNumber(value.s)
    [] OTHER -> NaNv

\* Boolean(value), app.js:231-232
ToBoolean(value) ==
  CASE value.t = "number" -> value.s = "Infinity" \/ (value.s = "" /\ value.n # 0)
    [] value.t = "string" -> value.s # ""
    [] value.t = "boolean" -> value.n = 1
    [] value.t = "function" -> TRUE
    [] OTHER -> FALSE

--------------------------------------------------------------------------
(* Rules: app.js:222-274 *)

MetricFields == {"minTempF", "minFeelsF", "maxPrecipProb", "maxWindMph", "wetRisk"}

\* metrics[field]: an own field, an inherited Object.prototype member, or undefined
GetField(metrics, field) ==
  IF field \in MetricFields THEN metrics[field]
  ELSE IF field = "constructor" THEN Func
  ELSE Undefined

\* condStep with the switch's default falling through instead of returning false
condStep_defaultBreaks(cond, metrics) ==
  IF ~cond.obj THEN "false"
  ELSE IF ~metrics.obj THEN "throw"
  ELSE IF cond.field = "wetRisk" THEN
    IF cond.op # "is" THEN "false"
    ELSE IF ToBoolean(GetField(metrics, "wetRisk")) # ToBoolean(cond.value) THEN "false"
    ELSE "continue"
  ELSE
    LET left == GetField(metrics, cond.field)
        right == ToNumber(cond.value)
    IN IF ~isFiniteNumber(left) \/ ~isFiniteNumber(right) THEN "false"
       ELSE CASE cond.op = "<=" -> IF left.n <= right.n THEN "continue" ELSE "false"
              [] cond.op = "<" -> IF left.n < right.n THEN "continue" ELSE "false"
              [] cond.op = ">=" -> IF left.n >= right.n THEN "continue" ELSE "false"
              [] cond.op = ">" -> IF left.n > right.n THEN "continue" ELSE "false"
              [] OTHER -> "continue"

\* One pass of the loop body of ruleMatches over cond: "continue" when the
\* loop goes on to the next condition, "false" when it returns false, "throw"
\* when a property of null is read.
condStep(cond, metrics) ==
  IF ~cond.obj THEN "false"
  ELSE IF ~metrics.obj THEN "throw"
  ELSE IF cond.field = "wetRisk" THEN
    IF cond.op # "is" THEN "false"
    ELSE IF ToBoolean(GetField(metrics, "wetRisk")) # ToBoolean(cond.value) THEN "false"
    ELSE "continue"
  ELSE
    LET left == GetField(metrics, cond.field)
        right == ToNumber(cond.value)
    IN IF ~isFiniteNumber(left) \/ ~isFiniteNumber(right) THEN "false"
       ELSE CASE cond.op = "<=" -> IF left.n <= right.n THEN "continue" ELSE "false"
              [] cond.op = "<" -> IF left.n < right.n THEN "continue" ELSE "false"
              [] cond.op = ">=" -> IF left.n >= right.n THEN "continue" ELSE "false"
              [] cond.op = ">" -> IF left.n > right.n THEN "continue" ELSE "false"
              [] OTHER -> "false"

RECURSIVE conditionsLoop(_, _, _)
conditionsLoop(conditions, i, metrics) ==
  IF i > Len(conditions) THEN "true"
  ELSE LET step == condStep(conditions[i], metrics)
       IN IF step = "continue" THEN conditionsLoop(conditions, i + 1, metrics)
          ELSE step

\* ruleMatches looking at the first condition only
ruleMatches_firstOnly(rule, metrics) ==
  IF ~rule.obj THEN "false"
  ELSE IF Len(rule.conditions) = 0 THEN "true"
  ELSE LET step == condStep(rule.conditions[1], metrics)
       IN IF step = "continue" THEN "true" ELSE step

\* app.js:222-259; the result is "true", "false" or "throw"
ruleMatches(rule, metrics) ==
  IF ~rule.obj THEN "false"
  ELSE conditionsLoop(rule.conditions, 1, metrics)

\* combosById.get(id): the last combo of the list with that id (a Map keeps
\* the last entry of a key), 0 when there is none
ComboIndex(combos, id) ==
  LET hits == {i \in 1..Len(combos) : combos[i].id = id}
  IN IF hits = {} THEN 0 ELSE CHOOSE i \in hits : \A j \in hits : j <= i

NoPick == [kind |-> "", rule |-> 0, combo |-> 0]

RECURSIVE rulesLoop(_, _, _)
rulesLoop(d, i, metrics) ==
  IF i > Len(d.rules) THEN
    LET defaultCombo == IF d.defaultComboId # "" THEN ComboIndex(d.combos, d.defaultComboId) ELSE 0
    IN IF defaultCombo # 0 THEN [kind |-> "default", rule |-> 0, combo |-> defaultCombo]
       ELSE [kind |-> "none", rule |-> 0, combo |-> 0]
  ELSE LET m == ruleMatches(d.rules[i], metrics)
       IN IF m = "throw" THEN [kind |-> "throw", rule |-> i, combo |-> 0]
          ELSE IF m = "false" THEN rulesLoop(d, i + 1, metrics)
          ELSE [kind |-> "rule", rule |-> i,
                combo |-> ComboIndex(d.combos, d.rules[i].comboId)]

\* pickRecommendation keeping the last matching rule instead of the first
RECURSIVE rulesLoop_lastMatch(_, _, _)
rulesLoop_lastMatch(d, i, metrics) ==
  IF i < 1 THEN rulesLoop(d, Len(d.rules) + 1, metrics)
  ELSE IF ruleMatches(d.rules[i], metrics) = "true"
       THEN [kind |-> "rule", rule |-> i, combo |-> ComboIndex(d.combos, d.rules[i].comboId)]
       ELSE rulesLoop_lastMatch(d, i - 1, metrics)

pickRecommendation_lastMatch(d, metrics) == rulesLoop_lastMatch(d, Len(d.rules), metrics)

\* pickRecommendation passing over a matching rule whose combo is missing
RECURSIVE rulesLoop_skipMissing(_, _, _)
rulesLoop_skipMissing(d, i, metrics) ==
  IF i > Len(d.rules) THEN rulesLoop(d, i, metrics)
  ELSE IF ruleMatches(d.rules[i], metrics) = "true"
          /\ ComboIndex(d.combos, d.rules[i].comboId) # 0
       THEN [kind |-> "rule", rule |-> i, combo |-> ComboIndex(d.combos, d.rules[i].comboId)]
       ELSE rulesLoop_skipMissing(d, i + 1, metrics)

pickRecommendation_skipMissing(d, metrics) == rulesLoop_skipMissing(d, 1, metrics)

\* pickRecommendation returning the default without looking it up
pickRecommendation_defaultUnchecked(d, metrics) ==
  LET p == rulesLoop(d, 1, metrics)
  IN IF p.kind = "none" /\ d.defaultComboId # ""
     THEN [kind |-> "default", rule |-> 0, combo |-> ComboIndex(d.combos, d.defaultComboId)]
     ELSE p

\* app.js:261-274; rule and combo are positions in data.rules and data.combos,
\* combo = 0 is the undefined of a failed Map lookup
pickRecommendation(d, metrics) == rulesLoop(d, 1, metrics)

\* app.js:382-428 (and the two headers of 430-440): what the recommendation
\* panel shows for the dataset d and the held metrics
renderRecommendation(d, metrics) ==
  IF ~metrics.obj THEN [view |-> "fetch-weather", pick |-> NoPick]
  ELSE IF Len(d.combos) = 0 THEN [view |-> "no-combos", pick |-> NoPick]
  ELSE IF Len(d.rules) = 0 /\ d.defaultComboId = "" THEN [view |-> "no-rules", pick |-> NoPick]
  ELSE LET pick == pickRecommendation(d, metrics)
       IN IF pick.kind = "throw" THEN [view |-> "throw", pick |-> pick]
          ELSE IF pick.kind = "none" THEN [view |-> "no-match", pick |-> pick]
          ELSE IF pick.combo = 0 THEN [view |-> "missing-combo", pick |-> pick]
          ELSE [view |-> pick.kind, pick |-> pick]

--------------------------------------------------------------------------
(* Data shapes *)

Blanket(id, name) == [id |-> id, name |-> name, notes |-> ""]
Combo(id, name, blanketIds) == [id |-> id, name |-> name, blanketIds |-> blanketIds]
Rule(id, comboId, conditions) ==
  [obj |-> TRUE, id |-> id, name |-> "", comboId |-> comboId, conditions |-> conditions]
NullRule == [obj |-> FALSE, id |-> "", name |-> "", comboId |-> "", conditions |-> <<>>]
Cond(field, op, value) == [obj |-> TRUE, field |-> field, op |-> op, value |-> value]
NullCond == [obj |-> FALSE, field |-> "", op |-> "", value |-> Undefined]

Metrics(minTempF, minFeelsF, maxPrecipProb, maxWindMph, wetRisk) ==
  [obj |-> TRUE, minTempF |-> minTempF, minFeelsF |-> minFeelsF,
   maxPrecipProb |-> maxPrecipProb, maxWindMph |-> maxWindMph, wetRisk |-> wetRisk]
NullMetrics ==
  [obj |-> FALSE, minTempF |-> Undefined, minFeelsF |-> Undefined,
   maxPrecipProb |-> Undefined, maxWindMph |-> Undefined, wetRisk |-> Undefined]

NoForecast == [present |-> FALSE, fetchedAtIso |-> Str(""), timezone |-> "", metrics |-> NullMetrics]

\* app.js:32-39
emptyData ==
  [blankets |-> <<>>, combos |-> <<>>, rules |-> <<>>, defaultComboId |-> "",
   lastForecast |-> NoForecast]

\* app.js:277-288
InitWeather ==
  [loading |-> FALSE, error |-> "", metrics |-> NullMetrics,
   fetchedAtIso |-> Str(""), timezone |-> ""]

\* localStorage without the key: getItem returns null (app.js:50)
NoBlob == [present |-> FALSE, json |-> emptyData]

\* The three hidden id inputs, empty: resetBlanketForm, resetComboForm,
\* resetRuleForm (app.js:455-480)
EmptyForm == [blanketId |-> "", comboId |-> "", ruleId |-> ""]

\* app.js:279, 287; booting is the await of init (app.js:1180)
InitUi ==
  [activeTab |-> "tonight", timerDue |-> -1, visible |-> TRUE, booting |-> TRUE,
   refreshDisabled |-> FALSE, localTz |-> "auto"]

\* Sequences over S of length at most n
SeqsUpTo(S, n) == UNION {[1..k -> S] : k \in 0..n}

--------------------------------------------------------------------------
(* The recommendation engine applied to bounded inputs *)

MaxConds == 2
MaxRuleList == 3

NumericOps == {"<=", "<", ">=", ">"}
FieldSamples == {"minTempF", "wetRisk", "bogus", "constructor"}
OpSamples == NumericOps \cup {"is", "=="}
ValueSamples ==
  {Num(32), Null, Undefined, Str(""), Str("32"), Str("abc"), NaNv, Infinity, Bool(TRUE)}

\* Conditions as the rule form builds them (app.js:1107-1117)
CoreConds ==
  {Cond("minTempF", "<=", Num(32)), Cond("wetRisk", "is", Bool(TRUE))}

\* Conditions as storage and import admit them (app.js:56, 908-915)
AnyConds ==
  {Cond(f, o, v) : f \in FieldSamples, o \in OpSamples, v \in ValueSamples}
    \cup {NullCond}

\* Condition lists with at most one condition from outside CoreConds
CondLists ==
  SeqsUpTo(CoreConds, MaxConds)
    \cup UNION {{[cs EXCEPT ![i] = c] : i \in 1..Len(cs), c \in AnyConds} :
                 cs \in SeqsUpTo(CoreConds, MaxConds)}

MetricsSamples ==
  {Metrics(t, Num(25), Num(50), Num(20), w) :
     t \in {Num(20), Num(32), Num(40), Null, Undefined, NaNv, Infinity},
     w \in {Bool(TRUE), Bool(FALSE)}}

ListMetrics ==
  {Metrics(t, Num(25), Num(50), Num(20), w) :
     t \in {Num(20), Num(40)}, w \in {Bool(TRUE), Bool(FALSE)}}

TwoCombos == <<Combo("c1", "Light", <<>>), Combo("c2", "Heavy", <<>>)>>

ListRules ==
  {Rule("r", c, cs) : c \in {"c1", ""},
                      cs \in {<<>>, <<Cond("minTempF", "<=", Num(32))>>,
                               <<Cond("wetRisk", "is", Bool(TRUE))>>}}
    \cup {NullRule}

\* One rule with rich conditions
InitOneRule ==
  \E cs \in CondLists, m \in MetricsSamples :
    /\ data = [emptyData EXCEPT !.combos = TwoCombos, !.rules = <<Rule("r", "c1", cs)>>]
    /\ weather = [InitWeather EXCEPT !.metrics = m]

\* A list of simple rules, over present and missing combos and defaults
InitRuleList ==
  \E rs \in SeqsUpTo(ListRules, MaxRuleList), m \in ListMetrics,
     cb \in {<<>>, TwoCombos}, def \in {"", "c2", "c9"} :
    /\ data = [emptyData EXCEPT !.combos = cb, !.rules = rs, !.defaultComboId = def]
    /\ weather = [InitWeather EXCEPT !.metrics = m]

NoOut == [fn |-> "", rule |-> 0, res |-> "", pick |-> NoPick, view |-> ""]

\* lastOp after a handler whose inputs no property reads
OtherOp == [op |-> "other", id |-> "", done |-> FALSE, refs |-> 0]

\* part_000:3-4
CACHE_NAME == "roo-static-v1"
ASSETS == <<"./", "./index.html", "./styles.css", "./app.js", "./manifest.webmanifest">>

\* A Response; NoResponse is the undefined a cache.match without a hit gives
Response(code, body) == [status |-> code, body |-> body]
NoResponse == Response(0, "")

\* The origin the worker is served from, and a URL of another origin
SelfOrigin == "https://roo.example"
ForecastUrl == "https://api.open-meteo.com/v1/forecast"

\* The request URLs a cache can hold an entry for
CacheKeys == {ASSETS[k] : k \in 1..Len(ASSETS)} \cup {"./photo.png", "./submit", ForecastUrl}

EmptyCache == [key \in CacheKeys |-> NoResponse]

\* The worker before its install event, with no cache storage
NoWorker == [state |-> "parsed", names |-> {}, cache |-> EmptyCache, events |-> <<>>]

InitEngine ==
  /\ InitOneRule \/ InitRuleList
  /\ out = NoOut
  /\ lastOp = OtherOp
  /\ stored = NoBlob
  /\ rec = [view |-> "", pick |-> NoPick]
  /\ form = EmptyForm
  /\ ui = InitUi
  /\ now = 0
  /\ runs = <<>>
  /\ status = ""
  /\ lastSuccessMs = -1
  /\ sw = NoWorker

engineFrame ==
  <<data, stored, weather, rec, form, ui, now, runs, status, lastOp, lastSuccessMs, sw>>

ApplyRuleMatches ==
  \E i \in 1..Len(data.rules) :
    /\ out' = [fn |-> "ruleMatches", rule |-> i,
               res |-> ruleMatches(data.rules[i], weather.metrics),
               pick |-> NoPick, view |-> ""]
    /\ UNCHANGED engineFrame

ApplyPickRecommendation ==
  /\ out' = [fn |-> "pickRecommendation", rule |-> 0, res |-> "",
             pick |-> pickRecommendation(data, weather.metrics), view |-> ""]
  /\ UNCHANGED engineFrame

ApplyRenderRecommendation ==
  /\ LET r == renderRecommendation(data, weather.metrics)
     IN out' = [fn |-> "renderRecommendation", rule |-> 0, res |-> "",
                pick |-> r.pick, view |-> r.view]
  /\ UNCHANGED engineFrame

NextEngine ==
  \/ ApplyRuleMatches
  \/ ApplyPickRecommendation
  \/ ApplyRenderRecommendation

SpecEngine == InitEngine /\ [][NextEngine]_vars

--------------------------------------------------------------------------
(* The dataset and its handlers *)

MaxBlankets == 1
MaxCombos == 1
MaxRules == 2

\* The ids newId() can return (app.js:66-69)
Ids == <<"id1", "id2", "id3", "id4", "id5", "id6", "id7", "id8">>

\* The ids the dataset d and the forms hold, as an id or as a reference
IdsInUse(d, f) ==
  {d.blankets[i].id : i \in 1..Len(d.blankets)}
    \cup {d.combos[i].id : i \in 1..Len(d.combos)}
    \cup UNION {{d.combos[i].blanketIds[j] : j \in 1..Len(d.combos[i].blanketIds)} :
                 i \in 1..Len(d.combos)}
    \cup {d.rules[i].id : i \in 1..Len(d.rules)}
    \cup {d.rules[i].comboId : i \in 1..Len(d.rules)}
    \cup {d.defaultComboId, f.blanketId, f.comboId, f.ruleId}

\* The k-th id newId() returns from now on: a random UUID, different from
\* every id in use; of the ids that are, the model takes the first ones
FreshId(k) ==
  LET free == {i \in 1..Len(Ids) : Ids[i] \notin IdsInUse(data, form)}
      RECURSIVE nth(_, _)
      nth(S, n) == LET m == CHOOSE i \in S : \A j \in S : i <= j
                   IN IF n = 1 THEN m ELSE nth(S \ {m}, n - 1)
  IN Ids[nth(free, k)]

newId == FreshId(1)

\* An id that nothing carries
UnknownId == "zz"

BlanketIdsOf(d) == {d.blankets[i].id : i \in 1..Len(d.blankets)}
ComboIdsOf(d) == {d.combos[i].id : i \in 1..Len(d.combos)}
RuleIdsOf(d) == {d.rules[i].id : i \in 1..Len(d.rules)}

\* What the user types into a name input
NameInputs == {"", "Light"}

\* String.prototype.trim on the strings of the model
Trim(s) == IF s \in {" ", "  "} THEN "" ELSE s

\* Array.prototype.find by id: the first position with that id, 0 for undefined
FindIndex(list, id) ==
  LET hits == {i \in 1..Len(list) : list[i].id = id}
  IN IF hits = {} THEN 0 ELSE CHOOSE i \in hits : \A j \in hits : i <= j

MapSeq(list, f(_)) == [i \in 1..Len(list) |-> f(list[i])]

\* JSON.stringify of a value: NaN and the infinities are written as null,
\* a function-valued property is left out
JsonValue(v) ==
  IF v.t = "number" /\ v.s # "" THEN Null
  ELSE IF v.t = "function" THEN Undefined
  ELSE v

JsonMetrics(m) ==
  [obj |-> m.obj, minTempF |-> JsonValue(m.minTempF), minFeelsF |-> JsonValue(m.minFeelsF),
   maxPrecipProb |-> JsonValue(m.maxPrecipProb), maxWindMph |-> JsonValue(m.maxWindMph),
   wetRisk |-> JsonValue(m.wetRisk)]

JsonRule(r) ==
  [r EXCEPT !.conditions =
     [k \in 1..Len(r.conditions) |->
        [r.conditions[k] EXCEPT !.value = JsonValue(r.conditions[k].value)]]]

\* app.js:62-64: the blob written by saveData(d)
saveData(d) ==
  [present |-> TRUE,
   json |-> [d EXCEPT !.rules = MapSeq(d.rules, JsonRule),
                      !.lastForecast.metrics = JsonMetrics(d.lastForecast.metrics)]]

\* app.js:780-785 without the filter of the combos
deleteBlanketData_keepsReferences(d, id) ==
  [d EXCEPT !.blankets = SelectSeq(d.blankets, LAMBDA x : x.id # id)]

\* app.js:780-785: the dataset after the blanket id is removed
deleteBlanketData(d, id) ==
  [d EXCEPT !.blankets = SelectSeq(d.blankets, LAMBDA x : x.id # id),
            !.combos = MapSeq(d.combos,
                LAMBDA c : [c EXCEPT !.blanketIds = SelectSeq(c.blanketIds, LAMBDA bid : bid # id)])]

\* app.js:814-819 dropping the rules that referenced the combo
deleteComboData_dropsRules(d, id) ==
  [d EXCEPT !.combos = SelectSeq(d.combos, LAMBDA x : x.id # id),
            !.defaultComboId = IF d.defaultComboId = id THEN "" ELSE d.defaultComboId,
            !.rules = SelectSeq(d.rules, LAMBDA r : r.comboId # id)]

\* app.js:814-819 without line 816: the default keeps the removed id
deleteComboData_keepsDefault(d, id) ==
  [d EXCEPT !.combos = SelectSeq(d.combos, LAMBDA x : x.id # id),
            !.rules = MapSeq(d.rules,
                LAMBDA r : IF r.comboId = id THEN [r EXCEPT !.comboId = ""] ELSE r)]

\* app.js:814-819: the dataset after the combo id is removed
deleteComboData(d, id) ==
  [d EXCEPT !.combos = SelectSeq(d.combos, LAMBDA x : x.id # id),
            !.defaultComboId = IF d.defaultComboId = id THEN "" ELSE d.defaultComboId,
            !.rules = MapSeq(d.rules,
                LAMBDA r : IF r.comboId = id THEN [r EXCEPT !.comboId = ""] ELSE r)]

\* saveData(state.data) and the renderRecommendation that ends renderAll
\* (app.js:752-761), for the new dataset d
SaveAndRender(d) ==
  /\ data' = d
  /\ stored' = saveData(d)
  /\ rec' = renderRecommendation(d, weather.metrics)

dataFrame == <<weather, ui, now, runs, status, out, lastSuccessMs, sw>>

\* The combos whose blanketIds hold the blanket id, and the rules whose
\* comboId is the combo id: what lastOp remembers of the dataset a delete
\* handler started from
CombosWithBlanket(d, id) ==
  {i \in 1..Len(d.combos) : \E j \in 1..Len(d.combos[i].blanketIds) : d.combos[i].blanketIds[j] = id}

RulesWithCombo(d, id) == {i \in 1..Len(d.rules) : d.rules[i].comboId = id}

\* app.js:764-773
startEditBlanket(id) ==
  /\ form' = IF FindIndex(data.blankets, id) # 0 THEN [form EXCEPT !.blanketId = id] ELSE form
  /\ lastOp' = OtherOp /\ UNCHANGED dataFrame
  /\ UNCHANGED <<data, stored, rec>>

\* app.js:1036-1038, 455-480
cancelForm(which) ==
  /\ form' = [form EXCEPT ![which] = ""]
  /\ lastOp' = OtherOp /\ UNCHANGED dataFrame
  /\ UNCHANGED <<data, stored, rec>>

\* app.js:1040-1060
submitBlanket(name) ==
  /\ lastOp' = OtherOp /\ UNCHANGED dataFrame
  /\ IF Trim(name) = "" THEN UNCHANGED <<data, stored, rec, form>>
     ELSE IF form.blanketId # "" THEN
       LET i == FindIndex(data.blankets, form.blanketId)
       IN /\ SaveAndRender(IF i = 0 THEN data
                           ELSE [data EXCEPT !.blankets[i].name = Trim(name)])
          /\ form' = [form EXCEPT !.blanketId = ""]
     ELSE
       /\ Len(data.blankets) < MaxBlankets
       /\ SaveAndRender([data EXCEPT !.blankets = Append(@, Blanket(newId, Trim(name)))])
       /\ form' = [form EXCEPT !.blanketId = ""]

\* app.js:775-789
deleteBlanket(id, confirmed) ==
  /\ UNCHANGED dataFrame
  /\ IF FindIndex(data.blankets, id) = 0 \/ ~confirmed
     THEN /\ lastOp' = OtherOp
          /\ UNCHANGED <<data, stored, rec, form>>
     ELSE /\ lastOp' = [op |-> "deleteBlanket", id |-> id, done |-> TRUE,
                         refs |-> Cardinality(CombosWithBlanket(data, id))]
          /\ SaveAndRender(deleteBlanketData(data, id))
          /\ form' = [form EXCEPT !.blanketId = ""]

\* app.js:792-807
startEditCombo(id) ==
  /\ form' = IF FindIndex(data.combos, id) # 0 THEN [form EXCEPT !.comboId = id] ELSE form
  /\ lastOp' = OtherOp /\ UNCHANGED dataFrame
  /\ UNCHANGED <<data, stored, rec>>

\* The checked boxes of the combo form, in document order: a sublist of the
\* boxes renderComboBlanketChoices drew, one per blanket (app.js:528-545)
CheckedChoices ==
  {SelectSeq(MapSeq(data.blankets, LAMBDA b : b.id), LAMBDA bid : bid \in S) :
     S \in SUBSET {data.blankets[i].id : i \in 1..Len(data.blankets)}}

\* app.js:1062-1085
submitCombo(name, blanketIds) ==
  /\ lastOp' = OtherOp /\ UNCHANGED dataFrame
  /\ IF Trim(name) = "" THEN UNCHANGED <<data, stored, rec, form>>
     ELSE IF form.comboId # "" THEN
       LET i == FindIndex(data.combos, form.comboId)
       IN /\ SaveAndRender(IF i = 0 THEN data
                           ELSE [data EXCEPT !.combos[i].name = Trim(name),
                                             !.combos[i].blanketIds = blanketIds])
          /\ form' = [form EXCEPT !.comboId = ""]
     ELSE
       /\ Len(data.combos) < MaxCombos
       /\ SaveAndRender([data EXCEPT !.combos = Append(@, Combo(newId, Trim(name), blanketIds))])
       /\ form' = [form EXCEPT !.comboId = ""]

\* app.js:809-824
deleteCombo(id, confirmed) ==
  /\ UNCHANGED dataFrame
  /\ IF FindIndex(data.combos, id) = 0 \/ ~confirmed
     THEN /\ lastOp' = OtherOp
          /\ UNCHANGED <<data, stored, rec, form>>
     ELSE /\ lastOp' = [op |-> "deleteCombo", id |-> id, done |-> TRUE,
                         refs |-> Cardinality(RulesWithCombo(data, id))]
          /\ SaveAndRender(deleteComboData(data, id))
          /\ form' = [form EXCEPT !.comboId = ""]

\* The options of the two combo selects: one per combo, after the empty one
\* (app.js:579-600)
ComboOptions == {""} \cup {data.combos[i].id : i \in 1..Len(data.combos)}

\* changeDefaultCombo without its saveData
changeDefaultCombo_unsaved(value) ==
  /\ lastOp' = OtherOp /\ UNCHANGED dataFrame
  /\ data' = [data EXCEPT !.defaultComboId = value]
  /\ rec' = renderRecommendation(data', weather.metrics)
  /\ UNCHANGED <<stored, form>>

\* app.js:1087-1091
changeDefaultCombo(value) ==
  /\ lastOp' = OtherOp /\ UNCHANGED dataFrame
  /\ SaveAndRender([data EXCEPT !.defaultComboId = value])
  /\ UNCHANGED form

\* The condition rows the rule form is submitted with (app.js:1102-1119)
FormConditions == {<<Cond("minTempF", "<=", Num(32))>>}

\* app.js:839-855
startEditRule(id) ==
  /\ form' = IF FindIndex(data.rules, id) # 0 THEN [form EXCEPT !.ruleId = id] ELSE form
  /\ lastOp' = OtherOp /\ UNCHANGED dataFrame
  /\ UNCHANGED <<data, stored, rec>>

\* app.js:1095-1136
submitRule(comboId, conditions) ==
  /\ lastOp' = OtherOp /\ UNCHANGED dataFrame
  /\ IF comboId = "" THEN UNCHANGED <<data, stored, rec, form>>
     ELSE IF form.ruleId # "" THEN
       LET i == FindIndex(data.rules, form.ruleId)
       IN /\ SaveAndRender(IF i = 0 THEN data
                           ELSE [data EXCEPT !.rules[i].comboId = comboId,
                                             !.rules[i].conditions = conditions])
          /\ form' = [form EXCEPT !.ruleId = ""]
     ELSE
       /\ Len(data.rules) < MaxRules
       /\ SaveAndRender([data EXCEPT !.rules = Append(@, Rule(newId, comboId, conditions))])
       /\ form' = [form EXCEPT !.ruleId = ""]

\* app.js:827-837; index counts from 0 and is the position of a rendered
\* rule (app.js:701-735)
moveRule(index, delta) ==
  LET target == index + delta
  IN /\ lastOp' = OtherOp /\ UNCHANGED dataFrame
     /\ UNCHANGED form
     /\ IF target < 0 \/ target >= Len(data.rules)
        THEN UNCHANGED <<data, stored, rec>>
        ELSE SaveAndRender([data EXCEPT !.rules[index + 1] = data.rules[target + 1],
                                        !.rules[target + 1] = data.rules[index + 1]])

\* app.js:857-865
deleteRule(id, confirmed) ==
  /\ UNCHANGED dataFrame
  /\ IF FindIndex(data.rules, id) = 0 \/ ~confirmed
     THEN /\ lastOp' = OtherOp
          /\ UNCHANGED <<data, stored, rec, form>>
     ELSE /\ lastOp' = OtherOp
          /\ SaveAndRender([data EXCEPT !.rules = SelectSeq(@, LAMBDA x : x.id # id)])
          /\ form' = [form EXCEPT !.ruleId = ""]

--------------------------------------------------------------------------
(* Backup import: app.js:873-933, 1140-1167 *)

\* Parsed JSON. A document is [kind, ...]: kind "malformed" is text that
\* JSON.parse rejects, "null" and "number" are valid JSON that is no object,
\* "object" carries the five fields. An array-valued field is
\* [isArray |-> TRUE, items |-> <<...>>]; anything else there (a missing
\* field included) is NotArray.
RawArray(items) == [isArray |-> TRUE, items |-> items]
NotArray == [isArray |-> FALSE, items |-> <<>>]
RawBlanket(id, name, notes) == [obj |-> TRUE, id |-> id, name |-> name, notes |-> notes]
RawCombo(id, name, blanketIds) == [obj |-> TRUE, id |-> id, name |-> name, blanketIds |-> blanketIds]
RawRule(id, name, comboId, conditions) ==
  [obj |-> TRUE, id |-> id, name |-> name, comboId |-> comboId, conditions |-> conditions]
RawCond(field, op, value) == [obj |-> TRUE, field |-> field, op |-> op, value |-> value]
RawNull == [obj |-> FALSE]
RawObject(blankets, combos, rules, defaultComboId, lastForecast) ==
  [kind |-> "object", blankets |-> blankets, combos |-> combos, rules |-> rules,
   defaultComboId |-> defaultComboId, lastForecast |-> lastForecast]
RawOther(kind) ==
  [kind |-> kind, blankets |-> NotArray, combos |-> NotArray, rules |-> NotArray,
   defaultComboId |-> Undefined, lastForecast |-> NoForecast]

\* The k-th id newId() returns during an import: different from the ids in
\* use and from those the document carries
FromNewId(k) == Ids[Len(Ids) + 1 - k]

\* String(v || "")
StringOrEmpty(v) ==
  IF ~ToBoolean(v) THEN ""
  ELSE CASE v.t = "string" -> v.s
         [] v.t = "number" -> IF v.s # "" THEN v.s ELSE ToString(v.n)
         [] v.t = "boolean" -> "true"
         [] OTHER -> "[object Object]"

\* typeof x.id === "string" && x.id
KeepsId(x) == x.id.t = "string" /\ x.id.s # ""

\* The items of an array field that are objects (app.js:885, 893, 903, 910)
Objects(field) == IF field.isArray THEN SelectSeq(field.items, LAMBDA x : x.obj) ELSE <<>>

\* How many of the first k items get a fresh id
Regenerated(items, k) == Cardinality({j \in 1..k : ~KeepsId(items[j])})

\* The id of item k of items, base calls of newId() having been made
\* before the first of them
SanitizedId(items, k, base) ==
  IF KeepsId(items[k]) THEN items[k].id.s ELSE FromNewId(base + Regenerated(items, k))

OrUntitled(name, untitled) == IF Trim(StringOrEmpty(name)) = "" THEN untitled ELSE Trim(StringOrEmpty(name))

\* sanitizeImportedData keeping whatever id an item carries
sanitizeImportedData_keepsIds(raw) ==
  LET bs == Objects(raw.blankets)
      cs == Objects(raw.combos)
      rs == Objects(raw.rules)
      cbase == Regenerated(bs, Len(bs))
      rbase == cbase + Regenerated(cs, Len(cs))
  IN [blankets |-> [k \in 1..Len(bs) |->
                      [id |-> StringOrEmpty(bs[k].id),
                       name |-> OrUntitled(bs[k].name, "Untitled blanket"),
                       notes |-> StringOrEmpty(bs[k].notes)]],
      combos |-> [k \in 1..Len(cs) |->
                      [id |-> StringOrEmpty(cs[k].id),
                       name |-> OrUntitled(cs[k].name, "Untitled combo"),
                       blanketIds |->
                         IF cs[k].blanketIds.isArray
                         THEN MapSeq(SelectSeq(cs[k].blanketIds.items, LAMBDA v : v.t = "string"),
                                     LAMBDA v : v.s)
                         ELSE <<>>]],
      rules |-> [k \in 1..Len(rs) |->
                      [obj |-> TRUE,
                       id |-> StringOrEmpty(rs[k].id),
                       name |-> StringOrEmpty(rs[k].name),
                       comboId |-> IF rs[k].comboId.t = "string" THEN rs[k].comboId.s ELSE "",
                       conditions |->
                         MapSeq(Objects(rs[k].conditions),
                                LAMBDA c : [obj |-> TRUE,
                                            field |-> StringOrEmpty(c.field),
                                            op |-> StringOrEmpty(c.op),
                                            value |-> c.value])]],
      defaultComboId |-> IF raw.defaultComboId.t = "string" THEN raw.defaultComboId.s ELSE "",
      lastForecast |-> raw.lastForecast]

\* app.js:873-922, for a raw that is an object
sanitizeImportedData(raw) ==
  LET bs == Objects(raw.blankets)
      cs == Objects(raw.combos)
      rs == Objects(raw.rules)
      cbase == Regenerated(bs, Len(bs))
      rbase == cbase + Regenerated(cs, Len(cs))
  IN [blankets |-> [k \in 1..Len(bs) |->
                      [id |-> SanitizedId(bs, k, 0),
                       name |-> OrUntitled(bs[k].name, "Untitled blanket"),
                       notes |-> StringOrEmpty(bs[k].notes)]],
      combos |-> [k \in 1..Len(cs) |->
                      [id |-> SanitizedId(cs, k, cbase),
                       name |-> OrUntitled(cs[k].name, "Untitled combo"),
                       blanketIds |->
                         IF cs[k].blanketIds.isArray
                         THEN MapSeq(SelectSeq(cs[k].blanketIds.items, LAMBDA v : v.t = "string"),
                                     LAMBDA v : v.s)
                         ELSE <<>>]],
      rules |-> [k \in 1..Len(rs) |->
                      [obj |-> TRUE,
                       id |-> SanitizedId(rs, k, rbase),
                       name |-> StringOrEmpty(rs[k].name),
                       comboId |-> IF rs[k].comboId.t = "string" THEN rs[k].comboId.s ELSE "",
                       conditions |->
                         MapSeq(Objects(rs[k].conditions),
                                LAMBDA c : [obj |-> TRUE,
                                            field |-> StringOrEmpty(c.field),
                                            op |-> StringOrEmpty(c.op),
                                            value |-> c.value])]],
      defaultComboId |-> IF raw.defaultComboId.t = "string" THEN raw.defaultComboId.s ELSE "",
      lastForecast |-> raw.lastForecast]

\* The documents offered to the import handlers: text that is no JSON, JSON
\* that is no object, one blanket and nothing else, a dataset whose combo,
\* rule and default each carry a reference to something missing and whose
\* rule has no id, and an object without the list fields
RawSamples ==
  << RawOther("malformed"),
     RawOther("number"),
     RawObject(RawArray(<<RawBlanket(Str("b1"), Str("Heavy"), Undefined)>>),
               RawArray(<<>>), RawArray(<<>>), Undefined, NoForecast),
     RawObject(RawArray(<<RawBlanket(Str("b1"), Str("Heavy"), Str("lined"))>>),
               RawArray(<<RawCombo(Str("c1"), Str("Light"), RawArray(<<Str("b1"), Str("zz"), Num(7)>>))>>),
               RawArray(<<RawRule(Undefined, Str("Cold"), Str("c9"),
                                  RawArray(<<RawCond(Str("minTempF"), Str("<="), Null), RawNull>>)),
                          RawNull>>),
               Str("c9"), NoForecast),
     RawObject(NotArray, NotArray, NotArray, Num(5), NoForecast) >>

\* app.js:1157-1167 with importData (924-933); the file input's handler
\* (1140-1155) runs the same steps on the text of the file
importJson(k, confirmed) ==
  LET raw == RawSamples[k]
      parsedFalsy == raw.kind \in {"malformed", "null"}
  IN /\ UNCHANGED dataFrame
     /\ IF parsedFalsy THEN
          /\ lastOp' = OtherOp
          /\ UNCHANGED <<data, stored, rec, form>>
        ELSE IF ~confirmed THEN
          /\ lastOp' = OtherOp
          /\ UNCHANGED <<data, stored, rec, form>>
        ELSE IF raw.kind # "object" THEN
          /\ lastOp' = OtherOp
          /\ UNCHANGED <<data, stored, rec, form>>
        ELSE
          /\ lastOp' = [op |-> "import", id |-> "", done |-> TRUE,
                       refs |-> Len(data.blankets) + Len(data.combos) + Len(data.rules)]
          /\ SaveAndRender(sanitizeImportedData(raw))
          /\ form' = EmptyForm

--------------------------------------------------------------------------
(* The dataset under the handlers of the Blankets, Rules and Backup tabs *)

\* The held metrics of the session: a cold dry night
DataMetrics == {Metrics(Num(20), Num(15), Num(10), Num(5), Bool(FALSE))}

\* app.js:277-288 with empty storage
Init ==
  /\ data = emptyData
  /\ stored = NoBlob
  /\ \E m \in DataMetrics : weather = [InitWeather EXCEPT !.metrics = m]
  /\ rec = renderRecommendation(data, weather.metrics)
  /\ form = EmptyForm
  /\ ui = InitUi
  /\ now = 0
  /\ runs = <<>>
  /\ status = ""
  /\ lastSuccessMs = -1
  /\ sw = NoWorker
  /\ out = NoOut
  /\ lastOp = OtherOp

\* The handlers of the three forms and lists
NextUI ==
  \/ \E id \in BlanketIdsOf(data) \cup {UnknownId} : startEditBlanket(id)
  \/ \E which \in {"blanketId", "comboId", "ruleId"} : cancelForm(which)
  \/ \E name \in NameInputs : submitBlanket(name)
  \/ \E id \in BlanketIdsOf(data) \cup {UnknownId}, confirmed \in BOOLEAN : deleteBlanket(id, confirmed)
  \/ \E id \in ComboIdsOf(data) \cup {UnknownId} : startEditCombo(id)
  \/ \E name \in NameInputs, blanketIds \in CheckedChoices : submitCombo(name, blanketIds)
  \/ \E id \in ComboIdsOf(data) \cup {UnknownId}, confirmed \in BOOLEAN : deleteCombo(id, confirmed)
  \/ \E value \in ComboOptions : changeDefaultCombo(value)
  \/ \E id \in RuleIdsOf(data) \cup {UnknownId} : startEditRule(id)
  \/ \E comboId \in ComboOptions, conditions \in FormConditions : submitRule(comboId, conditions)
  \/ \E index \in 0..(Len(data.rules) - 1), delta \in {-1, 1} : moveRule(index, delta)
  \/ \E id \in RuleIdsOf(data) \cup {UnknownId}, confirmed \in BOOLEAN : deleteRule(id, confirmed)

Next ==
  \/ NextUI
  \/ \E k \in 1..Len(RawSamples), confirmed \in BOOLEAN : importJson(k, confirmed)

Spec == Init /\ [][Next]_vars

\* The same page without the import
SpecUI == Init /\ [][NextUI]_vars

--------------------------------------------------------------------------
\* Weather refresh (specification SpecWeather)

\* app.js:9
WEATHER_REFRESH_MS == 30 * 60 * 1000

\* The clock runs to MaxHalfHours refresh periods, a refreshWeather call
\* waits while MaxRuns calls already await a response
MaxHalfHours == 2
MaxRuns == 2

\* The instants the clock stops at: around the start and the end of the
\* freshness window of each period
Offsets ==
  {0, 1, 5000, 5001, WEATHER_REFRESH_MS - 5001, WEATHER_REFRESH_MS - 5000}

Instants ==
  {k * WEATHER_REFRESH_MS + o : k \in 0..(MaxHalfHours - 1), o \in Offsets}
    \cup {MaxHalfHours * WEATHER_REFRESH_MS}

\* new Date(ms).toISOString(), and Date.parse of a string: the time of an ISO
\* string, NaN for any other text
IsoString(ms) == [t |-> "string", n |-> ms, s |-> "iso"]

DateParse(v) == IF v.t = "string" /\ v.s = "iso" THEN Num(v.n) ELSE NaNv

\* getLocalTimeZone (app.js:102-109)
LocalTimeZones == {"auto", "America/Chicago"}

TabNames == {"tonight", "blankets", "rules"}

\* What a response yields through computeTonightMetricsFromHourly
FetchedMetrics == {Metrics(Num(41), Num(36), Num(60), Num(12), Bool(TRUE))}

\* lastForecast as localStorage holds it at load: none, one saved at time 0,
\* one whose fetchedAtIso is not a date
StoredForecasts ==
  { NoForecast,
    [present |-> TRUE, fetchedAtIso |-> IsoString(0), timezone |-> "auto",
     metrics |-> Metrics(Num(20), Num(15), Num(10), Num(5), Bool(FALSE))],
    [present |-> TRUE, fetchedAtIso |-> Str("soon"), timezone |-> "auto",
     metrics |-> Metrics(Num(20), Num(15), Num(10), Num(5), Bool(FALSE))] }

\* The dataset loadData finds at load (app.js:49-60): one combo and a rule
\* that selects it on a freezing night
StoredDataset ==
  [emptyData EXCEPT !.combos = <<Combo("c1", "Light", <<>>)>>,
                    !.rules = <<Rule("r1", "c1", <<Cond("minTempF", "<=", Num(32))>>)>>]

\* app.js:1006-1019
hydrateWeatherFromStorage(d) ==
  LET last == d.lastForecast
  IN IF ~last.present \/ ~last.metrics.obj THEN InitWeather
     ELSE [InitWeather EXCEPT !.metrics = last.metrics,
                              !.fetchedAtIso = last.fetchedAtIso,
                              !.timezone = last.timezone]

\* lastOp of a handler that made no refreshWeather call
NoCall(op) == [op |-> op, quiet |-> FALSE, called |-> FALSE, result |-> "none"]

Called(op, quietIfFresh, result) ==
  [op |-> op, quiet |-> quietIfFresh, called |-> TRUE, result |-> result]

\* app.js:961-1004 without the loading guard
refreshWeather_noGuard(op, quietIfFresh, ui1) ==
  LET lastMs == IF ToBoolean(weather.fetchedAtIso)
                THEN DateParse(weather.fetchedAtIso) ELSE NaNv
  IN IF /\ quietIfFresh
        /\ isFiniteNumber(lastMs)
        /\ now - lastMs.n < WEATHER_REFRESH_MS - 5000
     THEN /\ lastOp' = Called(op, quietIfFresh, "fresh")
          /\ ui' = ui1
          /\ UNCHANGED <<weather, runs, status>>
     ELSE /\ Len(runs) < MaxRuns
          /\ weather' = [weather EXCEPT !.loading = TRUE, !.error = ""]
          /\ ui' = [ui1 EXCEPT !.refreshDisabled = TRUE]
          /\ status' = "Fetching weather"
          /\ runs' = Append(runs, [stage |-> "first", timezone |-> ui.localTz])
          /\ lastOp' = Called(op, quietIfFresh, "started")

\* app.js:961-1004 with the whole refresh period as the freshness window
refreshWeather_wholePeriod(op, quietIfFresh, ui1) ==
  LET lastMs == IF ToBoolean(weather.fetchedAtIso)
                THEN DateParse(weather.fetchedAtIso) ELSE NaNv
  IN IF weather.loading
     THEN /\ lastOp' = Called(op, quietIfFresh, "ignored")
          /\ ui' = ui1
          /\ UNCHANGED <<weather, runs, status>>
     ELSE IF /\ quietIfFresh
             /\ isFiniteNumber(lastMs)
             /\ now - lastMs.n < WEATHER_REFRESH_MS
     THEN /\ lastOp' = Called(op, quietIfFresh, "fresh")
          /\ ui' = ui1
          /\ UNCHANGED <<weather, runs, status>>
     ELSE /\ Len(runs) < MaxRuns
          /\ weather' = [weather EXCEPT !.loading = TRUE, !.error = ""]
          /\ ui' = [ui1 EXCEPT !.refreshDisabled = TRUE]
          /\ status' = "Fetching weather"
          /\ runs' = Append(runs, [stage |-> "first", timezone |-> ui.localTz])
          /\ lastOp' = Called(op, quietIfFresh, "started")

\* app.js:961-977: refreshWeather up to its await. ui1 is the ui the calling
\* handler leaves; the request of fetchTonightMetrics (app.js:201-208) joins
\* runs
refreshWeather(op, quietIfFresh, ui1) ==
  LET lastMs == IF ToBoolean(weather.fetchedAtIso)
                THEN DateParse(weather.fetchedAtIso) ELSE NaNv
  IN IF weather.loading
     THEN /\ lastOp' = Called(op, quietIfFresh, "ignored")
          /\ ui' = ui1
          /\ UNCHANGED <<weather, runs, status>>
     ELSE IF /\ quietIfFresh
             /\ isFiniteNumber(lastMs)
             /\ now - lastMs.n < WEATHER_REFRESH_MS - 5000
     THEN /\ lastOp' = Called(op, quietIfFresh, "fresh")
          /\ ui' = ui1
          /\ UNCHANGED <<weather, runs, status>>
     ELSE /\ Len(runs) < MaxRuns
          /\ weather' = [weather EXCEPT !.loading = TRUE, !.error = ""]
          /\ ui' = [ui1 EXCEPT !.refreshDisabled = TRUE]
          /\ status' = "Fetching weather"
          /\ runs' = Append(runs, [stage |-> "first", timezone |-> ui.localTz])
          /\ lastOp' = Called(op, quietIfFresh, "started")

\* What a refreshWeather call leaves alone before its await
callFrame == <<data, stored, rec, form, now, out, lastSuccessMs, sw>>

\* The click on the refresh button (app.js:1034); a disabled button gets none
clickRefresh ==
  /\ ~ui.refreshDisabled
  /\ refreshWeather("click", FALSE, ui)
  /\ UNCHANGED callFrame

\* The setInterval callback (app.js:948-953), once its period has passed
timerTick ==
  /\ ui.timerDue >= 0
  /\ now >= ui.timerDue
  /\ refreshWeather("timer", TRUE, [ui EXCEPT !.timerDue = @ + WEATHER_REFRESH_MS])
  /\ UNCHANGED callFrame

\* app.js:1169-1173: the page is hidden or shown
visibilityChange ==
  LET ui1 == [ui EXCEPT !.visible = ~ui.visible]
  IN /\ IF ui1.visible /\ ui.activeTab = "tonight"
        THEN refreshWeather("visibility", TRUE, ui1)
        ELSE /\ ui' = ui1
             /\ lastOp' = NoCall("visibility")
             /\ UNCHANGED <<weather, runs, status>>
     /\ UNCHANGED callFrame

\* app.js:936-958
setActiveTab(name) ==
  /\ ui' = [ui EXCEPT !.activeTab = name,
                      !.timerDue = IF name = "tonight" THEN now + WEATHER_REFRESH_MS ELSE -1]
  /\ lastOp' = NoCall("tab")
  /\ UNCHANGED <<weather, runs, status>>
  /\ UNCHANGED callFrame

\* app.js:1180-1186: init after the service worker registration settles
initKickoff ==
  /\ ui.booting
  /\ IF ui.activeTab = "tonight"
     THEN refreshWeather("init", TRUE,
            [ui EXCEPT !.booting = FALSE, !.timerDue = now + WEATHER_REFRESH_MS])
     ELSE /\ ui' = [ui EXCEPT !.booting = FALSE]
          /\ lastOp' = NoCall("init")
          /\ UNCHANGED <<weather, runs, status>>
  /\ UNCHANGED callFrame

\* Time passes
advanceClock ==
  /\ \E t \in Instants : t > now /\ now' = t
  /\ lastOp' = NoCall("clock")
  /\ UNCHANGED <<data, stored, weather, rec, form, ui, runs, status, out, lastSuccessMs, sw>>

RemoveAt(list, i) == SubSeq(list, 1, i - 1) \o SubSeq(list, i + 1, Len(list))

\* lastOp of a settled request: "ok", "retry" (the second request goes out)
\* or "error" (refreshWeather's catch)
Settled(result) == [op |-> "settle", quiet |-> FALSE, called |-> FALSE, result |-> result]

\* fetchSettles with a catch that also drops the metrics held
fetchSettles_dropsStale(i, ok, metrics) ==
  LET run == runs[i]
  IN /\ UNCHANGED <<form, now, out>>
     /\ IF ok THEN
          LET iso == IsoString(now)
              d == [data EXCEPT !.lastForecast =
                      [present |-> TRUE, fetchedAtIso |-> iso,
                       timezone |-> run.timezone, metrics |-> metrics]]
          IN /\ weather' = [weather EXCEPT !.metrics = metrics, !.fetchedAtIso = iso,
                                           !.timezone = run.timezone, !.loading = FALSE]
             /\ data' = d
             /\ stored' = saveData(d)
             /\ status' = "Updated"
             /\ rec' = renderRecommendation(d, metrics)
             /\ ui' = [ui EXCEPT !.refreshDisabled = FALSE]
             /\ runs' = RemoveAt(runs, i)
             /\ lastSuccessMs' = now /\ UNCHANGED sw
             /\ lastOp' = Settled("ok")
        ELSE IF run.stage = "first" /\ run.timezone # "auto" THEN
          /\ runs' = [runs EXCEPT ![i] = [stage |-> "second", timezone |-> "auto"]]
          /\ UNCHANGED <<data, stored, weather, rec, ui, status, lastSuccessMs, sw>>
          /\ lastOp' = Settled("retry")
        ELSE
          /\ weather' = [weather EXCEPT !.error = "Weather request failed", !.loading = FALSE,
                                        !.metrics = NullMetrics]
          /\ status' = "Weather error"
          /\ rec' = renderRecommendation(data, weather.metrics)
          /\ ui' = [ui EXCEPT !.refreshDisabled = FALSE]
          /\ runs' = RemoveAt(runs, i)
          /\ UNCHANGED <<data, stored, lastSuccessMs, sw>>
          /\ lastOp' = Settled("error")

\* A request of runs[i] settles. app.js:978-1003 when fetchTonightMetrics
\* returns metrics or throws; app.js:209-217 when the first request fails
\* under a named time zone and the second goes out
fetchSettles(i, ok, metrics) ==
  LET run == runs[i]
  IN /\ UNCHANGED <<form, now, out>>
     /\ IF ok THEN
          LET iso == IsoString(now)
              d == [data EXCEPT !.lastForecast =
                      [present |-> TRUE, fetchedAtIso |-> iso,
                       timezone |-> run.timezone, metrics |-> metrics]]
          IN /\ weather' = [weather EXCEPT !.metrics = metrics, !.fetchedAtIso = iso,
                                           !.timezone = run.timezone, !.loading = FALSE]
             /\ data' = d
             /\ stored' = saveData(d)
             /\ status' = "Updated"
             /\ rec' = renderRecommendation(d, metrics)
             /\ ui' = [ui EXCEPT !.refreshDisabled = FALSE]
             /\ runs' = RemoveAt(runs, i)
             /\ lastSuccessMs' = now /\ UNCHANGED sw
             /\ lastOp' = Settled("ok")
        ELSE IF run.stage = "first" /\ run.timezone # "auto" THEN
          /\ runs' = [runs EXCEPT ![i] = [stage |-> "second", timezone |-> "auto"]]
          /\ UNCHANGED <<data, stored, weather, rec, ui, status, lastSuccessMs, sw>>
          /\ lastOp' = Settled("retry")
        ELSE
          /\ weather' = [weather EXCEPT !.error = "Weather request failed", !.loading = FALSE]
          /\ status' = "Weather error"
          /\ rec' = renderRecommendation(data, weather.metrics)
          /\ ui' = [ui EXCEPT !.refreshDisabled = FALSE]
          /\ runs' = RemoveAt(runs, i)
          /\ UNCHANGED <<data, stored, lastSuccessMs, sw>>
          /\ lastOp' = Settled("error")

\* The page after hydrateWeatherFromStorage, renderAll and initEvents
\* (app.js:1176-1179), loaded at the start or at the end of the freshness
\* window of the stored forecast
InitWeatherPage ==
  /\ \E last \in StoredForecasts :
       /\ data = [StoredDataset EXCEPT !.lastForecast = last]
       /\ stored = saveData(data)
       /\ lastSuccessMs = IF isFiniteNumber(DateParse(last.fetchedAtIso))
                          THEN DateParse(last.fetchedAtIso).n ELSE -1
  /\ weather = hydrateWeatherFromStorage(data)
  /\ rec = renderRecommendation(data, weather.metrics)
  /\ form = EmptyForm
  /\ \E tz \in LocalTimeZones : ui = [InitUi EXCEPT !.localTz = tz]
  /\ sw = NoWorker
  /\ now \in {0, WEATHER_REFRESH_MS - 5000}
  /\ runs = <<>>
  /\ status = ""
  /\ out = NoOut
  /\ lastOp = NoCall("load")

NextWeather ==
  \/ clickRefresh
  \/ timerTick
  \/ visibilityChange
  \/ \E name \in TabNames : setActiveTab(name)
  \/ initKickoff
  \/ advanceClock
  \/ \E i \in 1..Len(runs), ok \in BOOLEAN, metrics \in FetchedMetrics : fetchSettles(i, ok, metrics)

SpecWeather == InitWeatherPage /\ [][NextWeather]_vars

--------------------------------------------------------------------------
\* The dataset handlers together with the arrival of a forecast
\* (specification SpecPersist)

\* app.js:979-992: what refreshWeather does when fetchTonightMetrics returns,
\* seen from the dataset; the request itself is SpecWeather's
forecastSaved(metrics) ==
  LET iso == IsoString(now)
      d == [data EXCEPT !.lastForecast =
              [present |-> TRUE, fetchedAtIso |-> iso, timezone |-> "auto", metrics |-> metrics]]
  IN /\ weather' = [weather EXCEPT !.metrics = metrics, !.fetchedAtIso = iso,
                                   !.timezone = "auto", !.loading = FALSE]
     /\ SaveAndRender(d)
     /\ status' = "Updated"
     /\ lastSuccessMs' = now /\ UNCHANGED sw
     /\ lastOp' = OtherOp
     /\ UNCHANGED <<form, ui, now, runs, out>>

NextPersist ==
  \/ Next
  \/ \E metrics \in DataMetrics : forecastSaved(metrics)

SpecPersist == Init /\ [][NextPersist]_vars

--------------------------------------------------------------------------
\* Loading the page and importing a file (specification SpecLoad)

\* localStorage holding text that JSON.parse rejects, and JSON that is no
\* object: loadData's two ways to emptyData() besides the missing key
\* (app.js:50-51)
MalformedBlob == [present |-> TRUE, text |-> "{blankets: [", json |-> emptyData]
NumberBlob == [present |-> TRUE, text |-> "5", json |-> emptyData]

\* What localStorage can hold when the page loads
LoadBlobs == {NoBlob, MalformedBlob, NumberBlob, saveData(StoredDataset)}

BlobKind(blob) ==
  IF ~blob.present THEN "none"
  ELSE IF "text" \in DOMAIN blob THEN (IF blob = MalformedBlob THEN "malformed" ELSE "not-object")
  ELSE "object"

\* app.js:49-60, for a blob that is unreadable or was written by saveData
loadData(blob) == IF BlobKind(blob) = "object" THEN blob.json ELSE emptyData

Loaded(blob) == [op |-> "load", id |-> BlobKind(blob), done |-> TRUE, refs |-> 0]

\* lastOp of an import that ended in the catch: msg is what follows
\* "Import failed: " on the backup status line (app.js:1150-1152)
ImportFailed(msg) == [op |-> "import", id |-> msg, done |-> FALSE, refs |-> 0]

\* The page is loaded again: state (app.js:277-288) and init up to its await
\* (app.js:1176-1179)
reloadPage ==
  /\ data' = loadData(stored)
  /\ weather' = hydrateWeatherFromStorage(data')
  /\ rec' = renderRecommendation(data', weather'.metrics)
  /\ form' = EmptyForm
  /\ ui' = InitUi
  /\ runs' = <<>>
  /\ status' = ""
  /\ lastOp' = Loaded(stored)
  /\ UNCHANGED <<stored, now, out, lastSuccessMs, sw>>

\* importFile taking text that is no JSON for an empty dataset
importFile_emptiesOnMalformed(k, confirmed) ==
  LET raw == RawSamples[k]
      parsedFalsy == raw.kind \in {"malformed", "null"}
  IN /\ UNCHANGED dataFrame
     /\ IF parsedFalsy THEN
          /\ lastOp' = ImportFailed("Invalid JSON.")
          /\ SaveAndRender(emptyData)
          /\ form' = EmptyForm
        ELSE IF ~confirmed THEN
          /\ lastOp' = OtherOp
          /\ UNCHANGED <<data, stored, rec, form>>
        ELSE IF raw.kind # "object" THEN
          /\ lastOp' = ImportFailed("Invalid JSON object.")
          /\ UNCHANGED <<data, stored, rec, form>>
        ELSE
          /\ lastOp' = [op |-> "import", id |-> "", done |-> TRUE,
                       refs |-> Len(data.blankets) + Len(data.combos) + Len(data.rules)]
          /\ SaveAndRender(sanitizeImportedData(raw))
          /\ form' = EmptyForm

\* app.js:1140-1155 with importData (924-933): the change handler of the
\* file input, after the text of the file was read
importFile(k, confirmed) ==
  LET raw == RawSamples[k]
      parsedFalsy == raw.kind \in {"malformed", "null"}
  IN /\ UNCHANGED dataFrame
     /\ IF parsedFalsy THEN
          /\ lastOp' = ImportFailed("Invalid JSON.")
          /\ UNCHANGED <<data, stored, rec, form>>
        ELSE IF ~confirmed THEN
          /\ lastOp' = OtherOp
          /\ UNCHANGED <<data, stored, rec, form>>
        ELSE IF raw.kind # "object" THEN
          /\ lastOp' = ImportFailed("Invalid JSON object.")
          /\ UNCHANGED <<data, stored, rec, form>>
        ELSE
          /\ lastOp' = [op |-> "import", id |-> "", done |-> TRUE,
                       refs |-> Len(data.blankets) + Len(data.combos) + Len(data.rules)]
          /\ SaveAndRender(sanitizeImportedData(raw))
          /\ form' = EmptyForm

\* The page right after state is built and init has run up to its await
InitLoad ==
  /\ stored \in LoadBlobs
  /\ data = loadData(stored)
  /\ weather = hydrateWeatherFromStorage(data)
  /\ rec = renderRecommendation(data, weather.metrics)
  /\ form = EmptyForm
  /\ ui = InitUi
  /\ now = 0
  /\ runs = <<>>
  /\ status = ""
  /\ lastSuccessMs = -1
  /\ sw = NoWorker
  /\ out = NoOut
  /\ lastOp = Loaded(stored)

NextLoad ==
  \/ reloadPage
  \/ \E k \in 1..Len(RawSamples), confirmed \in BOOLEAN : importFile(k, confirmed)
  \/ \E id \in BlanketIdsOf(data) \cup {UnknownId} : startEditBlanket(id)
  \/ \E which \in {"blanketId", "comboId", "ruleId"} : cancelForm(which)
  \/ \E name \in NameInputs : submitBlanket(name)
  \/ \E id \in BlanketIdsOf(data) \cup {UnknownId}, confirmed \in BOOLEAN : deleteBlanket(id, confirmed)
  \/ \E id \in ComboIdsOf(data) \cup {UnknownId} : startEditCombo(id)
  \/ \E name \in NameInputs, blanketIds \in CheckedChoices : submitCombo(name, blanketIds)
  \/ \E id \in ComboIdsOf(data) \cup {UnknownId}, confirmed \in BOOLEAN : deleteCombo(id, confirmed)

SpecLoad == InitLoad /\ [][NextLoad]_vars

--------------------------------------------------------------------------
\* The metrics of a forecast (specification SpecMetrics)

\* The hourly series of a response has at most MaxHours entries
MaxHours == 3

HourMs == 60 * 60 * 1000
DayMs == 24 * HourMs

\* app.js:87-100: today 19:00 to tomorrow 09:00, local time, in ms
getTonightWindow(nowMs) ==
  LET midnight == (nowMs \div DayMs) * DayMs
  IN [start |-> midnight + 19 * HourMs, end |-> midnight + DayMs + 9 * HourMs]

\* new Date(v).getTime() (app.js:125-126)
NewDateMs(v) ==
  CASE v.t = "string" -> DateParse(v)
    [] v.t = "number" -> v
    [] v.t = "null" -> Num(0)
    [] v.t = "boolean" -> Num(v.n)
    [] OTHER -> NaNv

\* arr[idx], idx counted from 1
ReadingAt(arr, idx) == IF idx <= Len(arr.items) THEN arr.items[idx] ELSE Undefined

\* app.js:123-129 with 09:00 of the next day inside the window
WindowIndices_endIncluded(times, w) ==
  LET inside(i) == LET ms == NewDateMs(times.items[i])
                   IN ~(ms.t = "number" /\ ms.s = "NaN") /\ ms.n >= w.start /\ ms.n <= w.end
      RECURSIVE loop(_)
      loop(i) == IF i > Len(times.items) THEN <<>>
                 ELSE (IF inside(i) THEN <<i>> ELSE <<>>) \o loop(i + 1)
  IN loop(1)

\* app.js:123-129: the indices pushed, in order
WindowIndices(times, w) ==
  LET inside(i) == LET ms == NewDateMs(times.items[i])
                   IN ~(ms.t = "number" /\ ms.s = "NaN") /\ ms.n >= w.start /\ ms.n < w.end
      RECURSIVE loop(_)
      loop(i) == IF i > Len(times.items) THEN <<>>
                 ELSE (IF inside(i) THEN <<i>> ELSE <<>>) \o loop(i + 1)
  IN loop(1)

\* app.js:135-143
pickMin(arr, indices) ==
  LET RECURSIVE loop(_, _)
      loop(k, best) ==
        IF k > Len(indices) THEN best
        ELSE LET v == ReadingAt(arr, indices[k])
             IN IF ~isFiniteNumber(v) THEN loop(k + 1, best)
                ELSE IF best = Null \/ v.n < best.n THEN loop(k + 1, v)
                ELSE loop(k + 1, best)
  IN loop(1, Null)

\* app.js:145-153
pickMax(arr, indices) ==
  LET RECURSIVE loop(_, _)
      loop(k, best) ==
        IF k > Len(indices) THEN best
        ELSE LET v == ReadingAt(arr, indices[k])
             IN IF ~isFiniteNumber(v) THEN loop(k + 1, best)
                ELSE IF best = Null \/ v.n > best.n THEN loop(k + 1, v)
                ELSE loop(k + 1, best)
  IN loop(1, Null)

\* What computeTonightMetricsFromHourly throws or returns
Thrown(error) == [res |-> error, metrics |-> NullMetrics]
Returned(metrics) == [res |-> "ok", metrics |-> metrics]

\* computeTonightMetricsFromHourly reducing whatever indices there are
computeTonightMetricsFromHourly_noWindowCheck(hourly, w) ==
  IF \/ ~hourly.time.isArray \/ ~hourly.temperature_2m.isArray
     \/ ~hourly.apparent_temperature.isArray
     \/ ~hourly.precipitation_probability.isArray \/ ~hourly.windspeed_10m.isArray
  THEN Thrown("Unexpected Open-Meteo response (missing hourly fields).")
  ELSE
    LET indices == WindowIndices(hourly.time, w)
        maxPrecipProb == pickMax(hourly.precipitation_probability, indices)
    IN Returned([obj |-> TRUE,
                 minTempF |-> pickMin(hourly.temperature_2m, indices),
                 minFeelsF |-> pickMin(hourly.apparent_temperature, indices),
                 maxPrecipProb |-> maxPrecipProb,
                 maxWindMph |-> pickMax(hourly.windspeed_10m, indices),
                 wetRisk |-> IF isFiniteNumber(maxPrecipProb)
                             THEN Bool(maxPrecipProb.n >= 50) ELSE Bool(FALSE)])

\* app.js:112-169
computeTonightMetricsFromHourly(hourly, w) ==
  IF \/ ~hourly.time.isArray \/ ~hourly.temperature_2m.isArray
     \/ ~hourly.apparent_temperature.isArray
     \/ ~hourly.precipitation_probability.isArray \/ ~hourly.windspeed_10m.isArray
  THEN Thrown("Unexpected Open-Meteo response (missing hourly fields).")
  ELSE
    LET indices == WindowIndices(hourly.time, w)
        maxPrecipProb == pickMax(hourly.precipitation_probability, indices)
    IN IF Len(indices) = 0
       THEN Thrown("No hourly data found for the tonight window.")
       ELSE Returned([obj |-> TRUE,
                      minTempF |-> pickMin(hourly.temperature_2m, indices),
                      minFeelsF |-> pickMin(hourly.apparent_temperature, indices),
                      maxPrecipProb |-> maxPrecipProb,
                      maxWindMph |-> pickMax(hourly.windspeed_10m, indices),
                      wetRisk |-> IF isFiniteNumber(maxPrecipProb)
                                  THEN Bool(maxPrecipProb.n >= 50) ELSE Bool(FALSE)])

\* The timestamps of a response around the window w: the hour before it,
\* its first hour, its last hour, the hour it ends, and text that is no date
TimeSamples(w) ==
  {IsoString(w.start - HourMs), IsoString(w.start), IsoString(w.end - HourMs),
   IsoString(w.end), Str("soon")}

\* The readings of one hour: temperature, apparent temperature,
\* precipitation probability, wind speed
HourSamples ==
  { <<Num(30), Num(25), Num(49), Num(5)>>,
    <<Num(20), Num(28), Num(50), Num(12)>>,
    <<Null, Num(22), NaNv, Num(8)>>,
    <<Null, NaNv, Null, Undefined>> }

Hourly(times, hours) ==
  [time |-> RawArray(times),
   temperature_2m |-> RawArray([i \in 1..Len(hours) |-> hours[i][1]]),
   apparent_temperature |-> RawArray([i \in 1..Len(hours) |-> hours[i][2]]),
   precipitation_probability |-> RawArray([i \in 1..Len(hours) |-> hours[i][3]]),
   windspeed_10m |-> RawArray([i \in 1..Len(hours) |-> hours[i][4]])]

\* A response without the hourly object, and one without the wind speeds
BrokenHourlies(w) ==
  { [time |-> NotArray, temperature_2m |-> NotArray, apparent_temperature |-> NotArray,
     precipitation_probability |-> NotArray, windspeed_10m |-> NotArray],
    [Hourly(<<IsoString(w.start)>>, <<<<Num(30), Num(25), Num(49), Num(5)>>>>)
       EXCEPT !.windspeed_10m = NotArray] }

\* The response of a request made at `now`, about to be reduced
InitMetrics ==
  /\ now \in {20 * HourMs, DayMs + 3 * HourMs}
  /\ \/ \E n \in 0..MaxHours :
          \E times \in [1..n -> TimeSamples(getTonightWindow(now))],
             hours \in [1..n -> HourSamples] :
            runs = <<[stage |-> "first", timezone |-> "auto", hourly |-> Hourly(times, hours)]>>
     \/ \E h \in BrokenHourlies(getTonightWindow(now)) :
          runs = <<[stage |-> "first", timezone |-> "auto", hourly |-> h]>>
  /\ data = emptyData
  /\ stored = NoBlob
  /\ weather = [InitWeather EXCEPT !.loading = TRUE]
  /\ rec = renderRecommendation(data, weather.metrics)
  /\ form = EmptyForm
  /\ ui = [InitUi EXCEPT !.booting = FALSE, !.refreshDisabled = TRUE]
  /\ status = "Fetching weather"
  /\ lastSuccessMs = -1
  /\ sw = NoWorker
  /\ out = NoOut
  /\ lastOp = OtherOp

\* fetchTonightMetrics reduces the response (app.js:202, 209)
ApplyComputeTonightMetrics ==
  /\ out' = [fn |-> "computeTonightMetricsFromHourly",
             result |-> computeTonightMetricsFromHourly(runs[1].hourly, getTonightWindow(now))]
  /\ UNCHANGED <<data, stored, weather, rec, form, ui, now, runs, status, lastOp, lastSuccessMs, sw>>

NextMetrics == ApplyComputeTonightMetrics

SpecMetrics == InitMetrics /\ [][NextMetrics]_vars

--------------------------------------------------------------------------
(* The service worker: part_000 *)

\* At most MaxEvents fetch events reach the worker
MaxEvents == 3

Request(method, url, origin, mode) ==
  [method |-> method, url |-> url, origin |-> origin, mode |-> mode]

\* A page navigation, a precached asset, an asset that is not precached, a
\* form post and the forecast request of the page
RequestSamples ==
  { Request("GET", "./", SelfOrigin, "navigate"),
    Request("GET", "./app.js", SelfOrigin, "no-cors"),
    Request("GET", "./photo.png", SelfOrigin, "no-cors"),
    Request("POST", "./submit", SelfOrigin, "cors"),
    Request("GET", ForecastUrl, "https://api.open-meteo.com", "cors") }

\* fetch(request) resolves with an ok response, resolves with a response
\* that is not ok, or rejects
NetworkOutcomes == {"ok", "notOk", "failed"}

NetworkResponse(outcome) ==
  IF outcome = "ok" THEN Response(200, "fresh") ELSE Response(404, "Not Found")

Installed == Response(200, "installed")

\* res.ok
IsOk(res) == res.status >= 200 /\ res.status <= 299

\* What event.respondWith was given: the response and where it came from;
\* NoReply while the promise is pending or when respondWith was not called
Reply(from, response) == [from |-> from, response |-> response]
NoReply == Reply("", NoResponse)

\* a || b on the results of cache.match
OrElse(a, b) == IF a # NoResponse THEN a ELSE b

\* part_000:38-44 putting every response, ok or not, under ./index.html
navigateResult_putsAny(cache, outcome) ==
  IF outcome # "failed"
  THEN [cache |-> [cache EXCEPT !["./index.html"] = NetworkResponse(outcome)],
        reply |-> Reply("network", NetworkResponse(outcome))]
  ELSE [cache |-> cache,
        reply |-> Reply("cache", OrElse(cache["./index.html"], cache["./"]))]

\* part_000:38-44: the cache and the reply after the fetch of a navigation
navigateResult(cache, outcome) ==
  IF outcome # "failed"
  THEN [cache |-> IF IsOk(NetworkResponse(outcome))
                  THEN [cache EXCEPT !["./index.html"] = NetworkResponse(outcome)]
                  ELSE cache,
        reply |-> Reply("network", NetworkResponse(outcome))]
  ELSE [cache |-> cache,
        reply |-> Reply("cache", OrElse(cache["./index.html"], cache["./"]))]

\* part_000:66-72: the cache and the reply after the fetch of a request that
\* had no cache entry
assetResult(cache, url, outcome) ==
  IF outcome # "failed"
  THEN [cache |-> IF IsOk(NetworkResponse(outcome))
                  THEN [cache EXCEPT ![url] = NetworkResponse(outcome)]
                  ELSE cache,
        reply |-> Reply("network", NetworkResponse(outcome))]
  ELSE [cache |-> cache,
        reply |-> IF cache["./index.html"] # NoResponse
                  THEN Reply("cache", cache["./index.html"])
                  ELSE Reply("worker", Response(503, "Offline"))]

\* part_000:57-61 putting every response, ok or not
revalidateResult_putsAny(cache, url, outcome) ==
  IF outcome # "failed" THEN [cache EXCEPT ![url] = NetworkResponse(outcome)] ELSE cache

\* part_000:57-61: the cache after the background fetch
revalidateResult(cache, url, outcome) ==
  IF outcome # "failed" /\ IsOk(NetworkResponse(outcome))
  THEN [cache EXCEPT ![url] = NetworkResponse(outcome)]
  ELSE cache

workerFrame ==
  <<data, stored, weather, rec, form, ui, now, runs, status, out, lastOp, lastSuccessMs>>

\* part_000:6-14. cache.addAll stores all of ASSETS or, when one of the
\* fetches fails or is not ok, rejects and stores none; a worker whose install
\* promise rejects is discarded
install(allFetched) ==
  /\ sw.state = "parsed"
  /\ sw' = IF allFetched
           THEN [sw EXCEPT !.state = "installed",
                           !.names = @ \cup {CACHE_NAME},
                           !.cache = [key \in CacheKeys |->
                                        IF \E k \in 1..Len(ASSETS) : ASSETS[k] = key
                                        THEN Installed ELSE sw.cache[key]]]
           ELSE [sw EXCEPT !.state = "redundant", !.names = @ \cup {CACHE_NAME}]
  /\ UNCHANGED workerFrame

\* part_000:16-24
activate ==
  /\ sw.state = "installed"
  /\ sw' = [sw EXCEPT !.state = "activated", !.names = {k \in @ : k = CACHE_NAME}]
  /\ UNCHANGED workerFrame

\* The event as the fetch listener leaves it: part_000:26-34, 51-54
Dispatched(request) ==
  [request |-> request,
   stage |-> IF request.method # "GET" \/ request.origin # SelfOrigin THEN "passthrough"
             ELSE IF request.mode = "navigate" THEN "network"
             ELSE "match",
   reply |-> NoReply]

\* part_000:26-75, the synchronous part of the listener
onFetch(request) ==
  /\ sw.state = "activated"
  /\ Len(sw.events) < MaxEvents
  /\ sw' = [sw EXCEPT !.events = Append(@, Dispatched(request))]
  /\ UNCHANGED workerFrame

\* part_000:53-64: cache.match(request) resolves
matchCache(i) ==
  /\ i \in 1..Len(sw.events)
  /\ sw.events[i].stage = "match"
  /\ LET cached == sw.cache[sw.events[i].request.url]
     IN sw' = IF cached # NoResponse
              THEN [sw EXCEPT !.events[i].stage = "revalidate",
                              !.events[i].reply = Reply("cache", cached)]
              ELSE [sw EXCEPT !.events[i].stage = "network"]
  /\ UNCHANGED workerFrame

\* part_000:38-44, 57-61, 66-72: fetch(request) settles
networkResponds(i, outcome) ==
  /\ i \in 1..Len(sw.events)
  /\ sw.events[i].stage \in {"network", "revalidate"}
  /\ LET e == sw.events[i]
         r == IF e.request.mode = "navigate" THEN navigateResult(sw.cache, outcome)
              ELSE assetResult(sw.cache, e.request.url, outcome)
     IN sw' = IF e.stage = "revalidate"
              THEN [sw EXCEPT !.events[i].stage = "done",
                              !.cache = revalidateResult(sw.cache, e.request.url, outcome)]
              ELSE [sw EXCEPT !.events[i].stage = "done",
                              !.events[i].reply = r.reply,
                              !.cache = r.cache]
  /\ UNCHANGED workerFrame

\* The worker script has been parsed; an older cache may be left in storage
InitWorker ==
  /\ \E names \in {{}, {"roo-static-v0"}} : sw = [NoWorker EXCEPT !.names = names]
  /\ data = emptyData
  /\ stored = NoBlob
  /\ weather = InitWeather
  /\ rec = renderRecommendation(data, weather.metrics)
  /\ form = EmptyForm
  /\ ui = InitUi
  /\ now = 0
  /\ runs = <<>>
  /\ status = ""
  /\ lastSuccessMs = -1
  /\ out = NoOut
  /\ lastOp = OtherOp

NextWorker ==
  \/ \E allFetched \in BOOLEAN : install(allFetched)
  \/ activate
  \/ \E request \in RequestSamples : onFetch(request)
  \/ \E i \in 1..MaxEvents : matchCache(i)
  \/ \E i \in 1..MaxEvents, outcome \in NetworkOutcomes : networkResponds(i, outcome)

SpecWorker == InitWorker /\ [][NextWorker]_vars

--------------------------------------------------------------------------
(* Properties of the recommendation engine *)

\* The positions of the rules that match the held metrics
Matching ==
  {i \in 1..Len(data.rules) : ruleMatches(data.rules[i], weather.metrics) = "true"}

\* defaultComboId names a combo of the list
DefaultUsable ==
  /\ data.defaultComboId # ""
  /\ \E i \in 1..Len(data.combos) : data.combos[i].id = data.defaultComboId

Dangling(rule) == \A i \in 1..Len(data.combos) : data.combos[i].id # rule.comboId

\* C1: pickRecommendation selects the matching rule of lowest index, and
\* never a rule that comes after another matching rule, whatever combos the
\* rules point to.
C1_FirstMatchWins ==
  out.fn = "pickRecommendation" =>
    /\ Matching # {} =>
         /\ out.pick.kind = "rule"
         /\ out.pick.rule \in Matching
         /\ \A j \in Matching : out.pick.rule <= j
    /\ out.pick.kind = "rule" => out.pick.rule \in Matching

\* Two rules match, the first points to a missing combo, the second to a
\* present one, and the first is the one selected.
C1_Witness ==
  /\ out.fn = "pickRecommendation"
  /\ Cardinality(Matching) >= 2
  /\ out.pick.rule = 1
  /\ Dangling(data.rules[1])
  /\ \E j \in Matching : j > 1 /\ ~Dangling(data.rules[j])

\* C2: the default combo is returned exactly when no rule matches and
\* defaultComboId names an existing combo; kind "none" is reported exactly
\* when no rule matches and there is no usable default.
C2_DefaultOrNone ==
  out.fn = "pickRecommendation" =>
    /\ out.pick.kind = "default" <=> (Matching = {} /\ DefaultUsable)
    /\ out.pick.kind = "default" =>
         /\ out.pick.combo \in 1..Len(data.combos)
         /\ data.combos[out.pick.combo].id = data.defaultComboId
    /\ out.pick.kind = "none" <=> (Matching = {} /\ ~DefaultUsable)

\* Rules exist, none matches, and the existing default combo is returned.
C2_Witness ==
  /\ out.fn = "pickRecommendation"
  /\ Len(data.rules) >= 2
  /\ out.pick.kind = "default"
  /\ data.combos[out.pick.combo].id = "c2"

\* C3: ruleMatches is true iff every condition of the rule holds; a rule
\* with no conditions matches every metrics snapshot, so no later rule and
\* no default combo is selected.
C3_AllConditions ==
  /\ out.fn = "ruleMatches" /\ data.rules[out.rule].obj =>
       LET conds == data.rules[out.rule].conditions
       IN (out.res = "true") <=>
            \A k \in 1..Len(conds) : condStep(conds[k], weather.metrics) = "continue"
  /\ out.fn = "pickRecommendation" =>
       \A i \in 1..Len(data.rules) :
         data.rules[i].obj /\ data.rules[i].conditions = <<>> =>
           out.pick.kind = "rule" /\ out.pick.rule <= i

\* A rule without conditions is selected ahead of a later matching rule and
\* of a usable default.
C3_Witness ==
  /\ out.fn = "pickRecommendation"
  /\ Len(data.rules) >= 2
  /\ data.rules[1].obj /\ data.rules[1].conditions = <<>>
  /\ data.rules[2].conditions # <<>> /\ 2 \in Matching
  /\ DefaultUsable
  /\ out.pick.kind = "rule" /\ out.pick.rule = 1

\* The dataset without its i-th rule
WithoutRule(i) ==
  [data EXCEPT !.rules = SubSeq(data.rules, 1, i - 1) \o SubSeq(data.rules, i + 1, Len(data.rules))]

\* The pick p, made with rule i in the list, is the pick q made without it
SamePick(p, q, i) ==
  /\ p.kind = q.kind
  /\ p.combo = q.combo
  /\ q.rule = IF p.rule > i THEN p.rule - 1 ELSE p.rule

NumericFields == MetricFields \ {"wetRisk"}

\* A field/operator combination that is not valid
InvalidCombination(cond) ==
  \/ cond.field \notin MetricFields
  \/ cond.op \notin NumericOps \cup {"is"}
  \/ cond.field \in NumericFields /\ cond.op = "is"
  \/ cond.field = "wetRisk" /\ cond.op # "is"

\* C5: a condition with an invalid field/operator combination never holds,
\* a rule that contains one does not match, and evaluation never throws.
C5_InvalidCombinationNeverMatches ==
  /\ out.fn = "ruleMatches" =>
       /\ out.res \in {"true", "false"}
       /\ \A k \in 1..Len(data.rules[out.rule].conditions) :
            LET cond == data.rules[out.rule].conditions[k]
            IN cond.obj /\ InvalidCombination(cond) =>
                 /\ condStep(cond, weather.metrics) = "false"
                 /\ out.res = "false"
  /\ out.fn = "pickRecommendation" => out.pick.kind \in {"rule", "default", "none"}

\* Operator "is" on a numeric field whose two sides are finite, placed after
\* a condition that holds: the rule does not match.
C5_Witness ==
  /\ out.fn = "ruleMatches" /\ out.res = "false"
  /\ LET conds == data.rules[out.rule].conditions
     IN /\ Len(conds) = 2
        /\ condStep(conds[1], weather.metrics) = "continue"
        /\ conds[2].field = "minTempF" /\ conds[2].op = "is"
        /\ isFiniteNumber(ToNumber(conds[2].value))
        /\ isFiniteNumber(weather.metrics.minTempF)

\* The condition values the claim counts as not a finite number
NotFiniteValue(v) == v \in {Undefined, Null, Str(""), NaNv, Infinity}

\* C6: a numeric condition never holds when the metric of its field or its
\* own value is missing, null, empty, NaN or infinite.
C6_NonFiniteNeverHolds ==
  out.fn = "ruleMatches" =>
    \A k \in 1..Len(data.rules[out.rule].conditions) :
      LET cond == data.rules[out.rule].conditions[k]
      IN /\ cond.obj
         /\ cond.field \in NumericFields
         /\ cond.op \in NumericOps
         /\ \/ ~isFiniteNumber(GetField(weather.metrics, cond.field))
            \/ NotFiniteValue(cond.value)
         => out.res # "true"

--------------------------------------------------------------------------
\* Properties of the delete handlers (specification Spec)

ComboHeads(d) == [i \in 1..Len(d.combos) |-> <<d.combos[i].id, d.combos[i].name>>]

\* C7: a confirmed deleteBlanket(id) of an existing blanket leaves no blanket
\* with that id, leaves the id in no combo's blanketIds, and keeps the combos
\* (their ids and names, in order) and the rules as they were; with an unknown
\* id or a declined confirmation the dataset is unchanged.
C7_DeleteBlanketEffects ==
  [][\A id \in BlanketIdsOf(data) \cup {UnknownId}, confirmed \in BOOLEAN :
       deleteBlanket(id, confirmed) =>
         IF confirmed /\ id \in BlanketIdsOf(data)
         THEN /\ id \notin BlanketIdsOf(data')
              /\ CombosWithBlanket(data', id) = {}
              /\ ComboHeads(data') = ComboHeads(data)
              /\ data'.rules = data.rules
         ELSE data' = data /\ stored' = stored]_vars

\* A blanket that a combo listed was deleted; the combo, which lists another
\* id too, and a rule are still there
C7_Witness ==
  /\ lastOp.op = "deleteBlanket" /\ lastOp.done /\ lastOp.refs >= 1
  /\ \E i \in 1..Len(data.combos) : Len(data.combos[i].blanketIds) >= 1
  /\ Len(data.rules) >= 1

\* C8: a confirmed deleteCombo(id) of an existing combo leaves no combo with
\* that id, keeps every rule in its position, with comboId "" where it was id
\* and untouched otherwise, and clears defaultComboId exactly when it was id.
C8_DeleteComboEffects ==
  [][\A id \in ComboIdsOf(data) :
       deleteCombo(id, TRUE) =>
         /\ id \notin ComboIdsOf(data')
         /\ Len(data'.rules) = Len(data.rules)
         /\ \A i \in 1..Len(data.rules) :
              data'.rules[i] = IF data.rules[i].comboId = id
                               THEN [data.rules[i] EXCEPT !.comboId = ""]
                               ELSE data.rules[i]
         /\ data'.defaultComboId = IF data.defaultComboId = id THEN ""
                                    ELSE data.defaultComboId]_vars

\* A combo that a rule pointed to was deleted: that rule now has the empty
\* comboId, next to a rule that points elsewhere
C8_Witness ==
  /\ lastOp.op = "deleteCombo" /\ lastOp.done /\ lastOp.refs >= 1
  /\ \E i, j \in 1..Len(data.rules) :
       data.rules[i].comboId = "" /\ data.rules[j].comboId # ""

--------------------------------------------------------------------------
\* Properties of the weather refresh (specification SpecWeather)

\* What a refreshWeather call can write before its await
refreshTargets == <<data, stored, weather, rec, runs, status, ui.refreshDisabled>>

BackgroundOps == {"timer", "visibility", "init"}

\* C9: never more than one refreshWeather call awaits a response, and a call
\* made while state.weather.loading is set (by the button, the timer, a
\* visibility change or init) adds no request and leaves the dataset, the
\* stored blob, state.weather, the panel and the status line as they were.
C9_SingleFlight ==
  /\ [](Len(runs) <= 1)
  /\ [][(lastOp'.called /\ weather.loading) => UNCHANGED refreshTargets]_vars

\* The timer ticked while a request was out: still one request, still loading
C9_Witness ==
  /\ lastOp.called /\ lastOp.op = "timer" /\ lastOp.result = "ignored"
  /\ Len(runs) = 1
  /\ weather.loading

\* C10: with no call loading, a background refreshWeather call (timer,
\* visibility change, init) made less than WEATHER_REFRESH_MS - 5000 ms after
\* the last successful fetch completed starts no request and changes nothing;
\* any other background call, and every manual call, starts a request.
C10_FreshnessWindow ==
  [][(lastOp'.called /\ ~weather.loading) =>
       IF /\ lastOp'.op \in BackgroundOps
          /\ lastSuccessMs >= 0
          /\ now - lastSuccessMs < WEATHER_REFRESH_MS - 5000
       THEN UNCHANGED refreshTargets
       ELSE Len(runs') = Len(runs) + 1 /\ weather'.loading]_vars

\* The timer ticked one millisecond before the freshness window of a fetch
\* of this session closed, and was skipped
C10_Witness ==
  /\ lastOp.op = "timer" /\ lastOp.result = "fresh"
  /\ weather.fetchedAtIso = IsoString(5001)
  /\ now - lastSuccessMs = WEATHER_REFRESH_MS - 5001
  /\ runs = <<>>


\* C11: when a refresh fails (refreshWeather's catch runs), the message is
\* recorded in state.weather.error and on the status line, and the metrics,
\* fetchedAtIso and timezone held, data.lastForecast, the stored blob and the
\* recommendation shown are what they were before.
C11_FailureKeepsStale ==
  [][(lastOp'.op = "settle" /\ lastOp'.result = "error") =>
       /\ weather'.error # ""
       /\ status' = "Weather error"
       /\ weather'.metrics = weather.metrics
       /\ weather'.fetchedAtIso = weather.fetchedAtIso
       /\ weather'.timezone = weather.timezone
       /\ data' = data
       /\ stored' = stored
       /\ rec' = rec]_vars

\* A refresh failed while metrics of an earlier forecast were held
C11_Witness ==
  /\ lastOp.op = "settle" /\ lastOp.result = "error"
  /\ weather.metrics.obj
  /\ weather.error # ""
  /\ data.lastForecast.present
  /\ rec.view = "rule"


--------------------------------------------------------------------------
\* Properties of persistence, import and referential integrity

\* C12: once anything was saved, the stored blob is the serialization of the
\* dataset in memory after every handler (add, edit and delete of blankets,
\* combos and rules, rule moves, the default select, import, a forecast that
\* arrived); before the first save the dataset is the empty one.
C12_PersistedEqualsDataset ==
  IF stored.present THEN stored = saveData(data) ELSE data = emptyData

\* Two rules, a default combo and a saved forecast, all in the blob
C12_Witness ==
  /\ stored.present
  /\ Len(data.rules) = 2
  /\ data.defaultComboId # ""
  /\ data.lastForecast.present
  /\ stored.json.defaultComboId = data.defaultComboId


IdsOfList(list) == {list[i].id : i \in 1..Len(list)}

\* The ids of the kept items of an array field: the one an item carries when
\* it is a non-empty string, one of newId()'s otherwise
IdsSanitized(field, list) ==
  /\ Len(list) = Len(Objects(field))
  /\ \A j \in 1..Len(list) :
       /\ list[j].id # ""
       /\ IF KeepsId(Objects(field)[j]) THEN list[j].id = Objects(field)[j].id.s
          ELSE \E n \in 1..Len(Ids) : list[j].id = Ids[n]

\* C13: a confirmed import of a JSON object makes the dataset the sanitized
\* document, which is read from the document alone: a list field that is no
\* array gives an empty list, a defaultComboId that is no string gives "",
\* and every kept blanket, combo and rule has a non-empty id, its own when
\* that was a non-empty string and a generated one otherwise.
C13_ImportReplacesDataset ==
  [][\A k \in 1..Len(RawSamples) :
       (importJson(k, TRUE) /\ RawSamples[k].kind = "object") =>
         LET raw == RawSamples[k]
         IN /\ data' = sanitizeImportedData(raw)
            /\ ~raw.blankets.isArray => data'.blankets = <<>>
            /\ ~raw.combos.isArray => data'.combos = <<>>
            /\ ~raw.rules.isArray => data'.rules = <<>>
            /\ raw.defaultComboId.t # "string" => data'.defaultComboId = ""
            /\ IdsSanitized(raw.blankets, data'.blankets)
            /\ IdsSanitized(raw.combos, data'.combos)
            /\ IdsSanitized(raw.rules, data'.rules)]_vars

\* The document with one blanket b1 was imported over a dataset that held
\* items: one blanket, no combos, no rules, no default
C13_Witness ==
  /\ lastOp.op = "import" /\ lastOp.done /\ lastOp.refs >= 2
  /\ Len(data.blankets) = 1 /\ data.blankets[1].id = "b1" /\ data.blankets[1].name = "Heavy"
  /\ data.combos = <<>> /\ data.rules = <<>>
  /\ data.defaultComboId = ""


MalformedSamples == {k \in 1..Len(RawSamples) : RawSamples[k].kind = "malformed"}

\* C14 as stated: after malformed JSON, at load or in an import, the dataset
\* in memory is the empty one.
C14_MalformedIsEmpty ==
  /\ []((lastOp.op = "load" /\ lastOp.id = "malformed") => data = emptyData)
  /\ [][\A k \in MalformedSamples, confirmed \in BOOLEAN :
          importFile(k, confirmed) => data' = emptyData]_vars

\* C14: a page loaded over malformed storage holds the empty dataset (no
\* blankets, combos, rules, default or forecast); an import of malformed
\* JSON ends with "Invalid JSON." on the status line and leaves the dataset
\* and the stored blob as they were.
C14_MalformedLoadEmptyImportRejected ==
  /\ []((lastOp.op = "load" /\ lastOp.id = "malformed") =>
          /\ data = emptyData
          /\ ~data.lastForecast.present
          /\ weather = InitWeather)
  /\ [][\A k \in MalformedSamples, confirmed \in BOOLEAN :
          importFile(k, confirmed) =>
            /\ data' = data
            /\ stored' = stored
            /\ lastOp'.id = "Invalid JSON."]_vars

\* Malformed JSON was offered to the import while the dataset held a blanket
C14_Witness ==
  /\ lastOp = ImportFailed("Invalid JSON.")
  /\ Len(data.blankets) >= 1
  /\ stored = saveData(data)


--------------------------------------------------------------------------
\* Properties of the metrics (specification SpecMetrics)

Computed == out.fn = "computeTonightMetricsFromHourly"

TheHourly == runs[1].hourly

IsSeries(h) ==
  /\ h.time.isArray /\ h.temperature_2m.isArray /\ h.apparent_temperature.isArray
  /\ h.precipitation_probability.isArray /\ h.windspeed_10m.isArray

\* The positions whose timestamp t has windowStart <= t < windowEnd
InWindow(h, w) ==
  {i \in 1..Len(h.time.items) :
     /\ h.time.items[i].t = "string" /\ h.time.items[i].s = "iso"
     /\ w.start <= h.time.items[i].n /\ h.time.items[i].n < w.end}

\* The finite readings of a field at the positions W
FiniteReadings(arr, W) ==
  {arr.items[i].n : i \in {j \in W : j <= Len(arr.items) /\ arr.items[j].t = "number"
                                                        /\ arr.items[j].s = ""}}

SetMin(S) == CHOOSE x \in S : \A y \in S : x <= y
SetMax(S) == CHOOSE x \in S : \A y \in S : x >= y

IsMinOf(metric, S) == S # {} => metric = Num(SetMin(S))
IsMaxOf(metric, S) == S # {} => metric = Num(SetMax(S))

\* C15: for a series with a timestamp in [windowStart, windowEnd) the result
\* is the reduction over exactly those positions: minTempF and minFeelsF the
\* least, maxPrecipProb and maxWindMph the greatest finite reading there, and
\* wetRisk true exactly when that greatest precipitation reading is >= 50.
C15_WindowReduction ==
  Computed =>
    LET h == TheHourly
        W == InWindow(h, getTonightWindow(now))
        m == out.result.metrics
        precip == FiniteReadings(h.precipitation_probability, W)
    IN (IsSeries(h) /\ W # {}) =>
         /\ out.result.res = "ok"
         /\ IsMinOf(m.minTempF, FiniteReadings(h.temperature_2m, W))
         /\ IsMinOf(m.minFeelsF, FiniteReadings(h.apparent_temperature, W))
         /\ IsMaxOf(m.maxPrecipProb, precip)
         /\ IsMaxOf(m.maxWindMph, FiniteReadings(h.windspeed_10m, W))
         /\ m.wetRisk = Bool(precip # {} /\ SetMax(precip \cup {0}) >= 50)

\* 19:00 carries 30 F and 49 %, 09:00 of the next day 20 F and 50 %: the
\* result is 30 F, 49 % and no wet risk
C15_Witness ==
  /\ Computed
  /\ out.result.res = "ok"
  /\ LET h == TheHourly
         w == getTonightWindow(now)
     IN \E i, j \in 1..Len(h.time.items) :
          /\ h.time.items[i] = IsoString(w.start)
          /\ h.time.items[j] = IsoString(w.end)
          /\ h.temperature_2m.items[j] = Num(20)
          /\ h.precipitation_probability.items[j] = Num(50)
  /\ out.result.metrics.minTempF = Num(30)
  /\ out.result.metrics.maxPrecipProb = Num(49)
  /\ out.result.metrics.wetRisk = Bool(FALSE)

\* C16: for a series none of whose timestamps lies in the window (the empty
\* series and unparsable timestamps included) the reduction throws the
\* window-empty error and returns no metrics.
C16_EmptyWindowFails ==
  Computed =>
    ((IsSeries(TheHourly) /\ InWindow(TheHourly, getTonightWindow(now)) = {}) =>
       /\ out.result.res = "No hourly data found for the tonight window."
       /\ ~out.result.metrics.obj)

\* Three hours, with finite readings, none in the window: one unparsable,
\* one at the hour the window ends, one before it starts
C16_Witness ==
  /\ Computed
  /\ out.result.res = "No hourly data found for the tonight window."
  /\ LET h == TheHourly
         w == getTonightWindow(now)
     IN /\ Len(h.time.items) = 3
        /\ \E i, j, k \in 1..3 :
             /\ h.time.items[i] = Str("soon")
             /\ h.time.items[j] = IsoString(w.end)
             /\ h.time.items[k] = IsoString(w.start - HourMs)
        /\ \A i \in 1..3 : h.temperature_2m.items[i].t = "number"

\* C17 as stated: in a series with a timestamp in the window, a field with a
\* finite reading there gets its metric whatever else is missing, and a field
\* with no finite reading there makes the reduction fail.
C17_AllMissingFails ==
  Computed =>
    LET h == TheHourly
        W == InWindow(h, getTonightWindow(now))
        fields == {h.temperature_2m, h.apparent_temperature,
                   h.precipitation_probability, h.windspeed_10m}
    IN (IsSeries(h) /\ W # {}) =>
         IF \A arr \in fields : FiniteReadings(arr, W) # {}
         THEN out.result.res = "ok"
         ELSE out.result.res # "ok"


--------------------------------------------------------------------------
\* Referential integrity of the dataset (specification SpecUI)

\* C20: through the forms and lists alone, from the empty dataset, every
\* rule's comboId is empty or the id of a combo, defaultComboId is empty or the
\* id of a combo, and every id in a combo's blanketIds is the id of a blanket.
C20_ReferentialIntegrity ==
  /\ \A i \in 1..Len(data.rules) : data.rules[i].comboId \in {""} \cup ComboIdsOf(data)
  /\ data.defaultComboId \in {""} \cup ComboIdsOf(data)
  /\ \A i \in 1..Len(data.combos) :
       \A j \in 1..Len(data.combos[i].blanketIds) :
         data.combos[i].blanketIds[j] \in BlanketIdsOf(data)

\* A combo that was the default, was used by two rules and held a blanket has
\* just been deleted while the blanket stays
C20_Witness ==
  /\ lastOp.op = "deleteCombo" /\ lastOp.done /\ lastOp.refs = 2
  /\ Len(data.combos) = 0 /\ Len(data.blankets) = 1
  /\ Len(data.rules) = 2 /\ \A i \in 1..2 : data.rules[i].comboId = ""
  /\ data.defaultComboId = ""


--------------------------------------------------------------------------
\* Properties of the service worker (specification SpecWorker)

IsNavigation(request) ==
  request.method = "GET" /\ request.origin = SelfOrigin /\ request.mode = "navigate"

IsAsset(request) ==
  request.method = "GET" /\ request.origin = SelfOrigin /\ request.mode # "navigate"

\* A navigation has no reply before its fetch has settled
NavigationAwaitsNetwork ==
  \A i \in 1..Len(sw.events) :
    (IsNavigation(sw.events[i].request) /\ sw.events[i].stage # "done") =>
      sw.events[i].reply = NoReply

\* When the fetch of a navigation settles: a response is the reply, and is
\* put under ./index.html iff it is ok; a failure is answered with the entry
\* under ./index.html, which is there, and leaves the cache alone
NavigationSettles ==
  \A i \in 1..MaxEvents, outcome \in NetworkOutcomes :
    (networkResponds(i, outcome) /\ IsNavigation(sw.events[i].request)) =>
      IF outcome # "failed"
      THEN /\ sw'.events[i].reply = Reply("network", NetworkResponse(outcome))
           /\ sw'.cache = IF outcome = "ok"
                          THEN [sw.cache EXCEPT !["./index.html"] = NetworkResponse("ok")]
                          ELSE sw.cache
      ELSE /\ sw.cache["./index.html"] # NoResponse
           /\ sw'.events[i].reply = Reply("cache", sw.cache["./index.html"])
           /\ sw'.cache = sw.cache

\* C18: a same-origin GET navigation is answered network-first: with the
\* network response whenever the fetch completes (an ok one also replaces the
\* cached shell page), and with the cached ./index.html only when the fetch
\* fails, which after a successful install is always there.
C18_NavigationNetworkFirst == []NavigationAwaitsNetwork /\ [][NavigationSettles]_vars

\* One navigation was answered from the network and refreshed the shell; a
\* later one failed and was answered with the refreshed shell
C18_Witness ==
  \E i, j \in 1..Len(sw.events) :
    /\ IsNavigation(sw.events[i].request) /\ IsNavigation(sw.events[j].request)
    /\ sw.events[i].reply = Reply("network", NetworkResponse("ok"))
    /\ sw.events[j].reply = Reply("cache", NetworkResponse("ok"))
    /\ sw.cache["./index.html"] = NetworkResponse("ok")
    /\ sw.cache["./"] = Installed

\* The worker called respondWith for no request that is not a same-origin
\* GET, and holds no entry for one
PassesThrough ==
  /\ \A i \in 1..Len(sw.events) :
       (~IsNavigation(sw.events[i].request) /\ ~IsAsset(sw.events[i].request)) =>
         sw.events[i].stage = "passthrough" /\ sw.events[i].reply = NoReply
  /\ \A request \in RequestSamples :
       (~IsNavigation(request) /\ ~IsAsset(request)) => sw.cache[request.url] = NoResponse

\* cache.match on a hit answers at once with the entry and leaves the fetch
\* in flight; on a miss nothing is answered yet
MatchAnswers ==
  \A i \in 1..MaxEvents :
    matchCache(i) =>
      /\ IsAsset(sw.events[i].request)
      /\ sw'.cache = sw.cache
      /\ IF sw.cache[sw.events[i].request.url] # NoResponse
         THEN /\ sw'.events[i].reply = Reply("cache", sw.cache[sw.events[i].request.url])
              /\ sw'.events[i].stage = "revalidate"
         ELSE /\ sw'.events[i].reply = NoReply
              /\ sw'.events[i].stage = "network"

\* The background fetch changes no reply; an ok response replaces the entry,
\* any other outcome leaves the cache as it was
RevalidationSettles ==
  \A i \in 1..MaxEvents, outcome \in NetworkOutcomes :
    (networkResponds(i, outcome) /\ sw.events[i].stage = "revalidate") =>
      /\ sw'.events[i].reply = sw.events[i].reply
      /\ sw'.cache = IF outcome = "ok"
                     THEN [sw.cache EXCEPT ![sw.events[i].request.url] = NetworkResponse("ok")]
                     ELSE sw.cache

\* The fetch after a miss: a response is the reply and is stored iff ok
MissSettles ==
  \A i \in 1..MaxEvents, outcome \in {"ok", "notOk"} :
    (networkResponds(i, outcome) /\ sw.events[i].stage = "network"
       /\ IsAsset(sw.events[i].request)) =>
      /\ sw'.events[i].reply = Reply("network", NetworkResponse(outcome))
      /\ sw'.cache = IF outcome = "ok"
                     THEN [sw.cache EXCEPT ![sw.events[i].request.url] = NetworkResponse("ok")]
                     ELSE sw.cache

\* C19: a same-origin GET that is no navigation is answered cache-first: a
\* cached entry is the reply before the network answers, and the fetch started
\* then replaces the entry iff its response is ok; without an entry the network
\* response is the reply and is stored iff ok; a request that is not GET or not
\* same-origin is neither answered nor cached.
C19_AssetsCacheFirst ==
  /\ []PassesThrough
  /\ [][MatchAnswers /\ RevalidationSettles /\ MissSettles]_vars

\* ./app.js was answered with the installed entry and its revalidation has
\* replaced the entry since; ./photo.png was fetched and stored; the post and
\* the forecast request went past the worker
C19_Witness ==
  /\ Len(sw.events) = 3
  /\ \E i, j, k \in 1..3 :
       /\ sw.events[i].request.url = "./app.js"
       /\ sw.events[i].stage = "done"
       /\ sw.events[i].reply = Reply("cache", Installed)
       /\ sw.events[j].request.url = "./photo.png"
       /\ sw.events[j].reply = Reply("network", NetworkResponse("ok"))
       /\ sw.events[k].stage = "passthrough"
  /\ sw.cache["./app.js"] = NetworkResponse("ok")
  /\ sw.cache["./photo.png"] = NetworkResponse("ok")

==========================================================================
